---- MODULE Spec2Model ----
(***************************************************************************)
(* Model of the contribution analytics pipeline of GitHub-AI-analyzer:     *)
(* the rate-limited transport (GitHubService._get, _graphql_query), the    *)
(* module-level TTL cache (_TTLCache, _graphql_cache), the canonical       *)
(* contribution fetcher (fetch_contribution_data) and the activity-score   *)
(* dispatch (ScoringEngine._calculate_activity_score), and the analysis of *)
(* a fetched payload (parse_contributions, _compute_streaks,               *)
(* _calculate_activity_overview, _validate_contribution_data).             *)
(*                                                                         *)
(* The operations of the transport and the cache are shared by eight       *)
(* specifications:                                                         *)
(*   SpecExec   one _graphql_query call against every answer of the remote *)
(*   SpecFetch  one fetch_contribution_data call after the other, scored   *)
(*   Spec       concurrent fetch_contribution_data calls over the cache    *)
(*   SpecGate   the REST GETs and a query on the services of the process   *)
(*   SpecCache  _TTLCache alone, under any clock                           *)
(*   SpecExecLive  SpecExec under the fairness of the event loop           *)
(*   SpecSleep  two _graphql_query calls and the GETs of one service       *)
(*   SpecFrame  fetch_contribution_data calls, the cache seen before each  *)
(* and the analysis runs in six more:                                      *)
(*   SpecStreaks   _compute_streaks on lists of daily pairs                *)
(*   SpecVerify    parse_contributions, one year block around the 2% rule  *)
(*   SpecParse     parse_contributions on whole payloads                   *)
(*   SpecOverview  _calculate_activity_overview on lists of yearly metrics *)
(*   SpecRates     the normalised rates of the current year, day by day    *)
(*   SpecScore     _activity_score_from_contributions on ContributionData  *)
(***************************************************************************)
EXTENDS Integers, Sequences, FiniteSets, TLC

(***************************************************************************)
(* Program constants.                                                      *)
(***************************************************************************)
_MAX_CONCURRENT_REQUESTS == 5

\* one more iteration of the retry loop
Mut_MAX_GRAPHQL_RETRIES == 3 + 1

_MAX_GRAPHQL_RETRIES == 3

_GRAPHQL_RETRY_BACKOFF == 1

ttl_seconds == 300

MaxRetryAfterWait == 60

(***************************************************************************)
(* Bounds of the model.                                                    *)
(***************************************************************************)
\* number of GitHubService objects alive at once (one per analysis request)
NumServices == 2

\* number of fetch_contribution_data / _graphql_query calls running at once
NumCalls == 2

\* the clock advances in steps of ClockStep seconds, up to MaxTicks steps
MaxTicks == 2

ClockStep == ttl_seconds \div 2

Services == 1..NumServices

Calls == 1..NumCalls

ClockValues == {k * ClockStep : k \in 0..MaxTicks}

Usernames == {"alice", "bob"}

\* non-null user payloads the remote can answer with
Payloads == {"P1", "P2"}

\* Python's None
Null == "None"

(***************************************************************************)
(* Exceptions: the type and the attempt whose POST raised it.              *)
(***************************************************************************)
Exc(type, attempt) == [type |-> type, attempt |-> attempt]

NoExc == Exc("None", 0)

(***************************************************************************)
(* What the remote can answer to one POST.  status = 0 stands for a        *)
(* transport-level exception named by exc; retry_after = 0 stands for an   *)
(* absent Retry-After header; body is the JSON payload of a 2xx response:  *)
(* "errors" carries an errors array, "user_null" is {"data":{"user":null}},*)
(* and a member of Payloads is {"data":{"user": <payload>}}.               *)
(***************************************************************************)
Resp(status, exc, retry_after, body) ==
    [status |-> status, exc |-> exc, retry_after |-> retry_after, body |-> body]

TransientResponses == {Resp(s, "None", 0, "none") : s \in {502, 503}}

RateLimitResponses == {Resp(403, "None", ra, "none") : ra \in {30, 90}}

NetworkErrors == {Resp(0, e, 0, "none") : e \in {"ConnectError", "ReadTimeout"}}

\* a transport exception that _graphql_query does not catch
OtherTransportErrors == {Resp(0, "ConnectTimeout", 0, "none")}

\* error statuses that raise_for_status turns into HTTPStatusError
ErrorStatusResponses == {Resp(403, "None", 0, "none"), Resp(404, "None", 0, "none")}

OkResponses == {Resp(200, "None", 0, b) : b \in Payloads \cup {"errors", "user_null"}}

AllResponses ==
    TransientResponses \cup RateLimitResponses \cup NetworkErrors
        \cup OtherTransportErrors \cup ErrorStatusResponses \cup OkResponses

\* the answers used where one fetch after the other runs: one of each kind
FetchResponses ==
    {Resp(503, "None", 0, "none"), Resp(0, "ConnectError", 0, "none"),
     Resp(0, "ConnectTimeout", 0, "none"), Resp(404, "None", 0, "none"),
     Resp(200, "None", 0, "errors"), Resp(200, "None", 0, "user_null"),
     Resp(200, "None", 0, "P1")}

\* the answers used where the calls are counted: a retried one and a payload
GateResponses == {Resp(503, "None", 0, "none"), Resp(200, "None", 0, "P1")}

\* the answers used where several calls run concurrently: a payload, a null
\* user or an error status
RaceResponses ==
    {Resp(404, "None", 0, "none")}
        \cup {Resp(200, "None", 0, b) : b \in Payloads \cup {"user_null"}}

MutTokenMissing(tok) == FALSE

\* if not settings.GITHUB_TOKEN
TokenMissing(tok) == ~tok

(***************************************************************************)
(* Pure helpers of _graphql_query.                                         *)
(***************************************************************************)
Min(a, b) == IF a < b THEN a ELSE b

\* response.status_code in (502, 503)
IsTransientStatus(status) == status \in {502, 503}

\* response.status_code == 403 and retry_after
IsSecondaryRateLimit(r) == r.status = 403 /\ r.retry_after # 0

MutRetryAfterWait(retry_after) == retry_after

\* wait = min(float(retry_after), 60.0)
RetryAfterWait(retry_after) == Min(retry_after, MaxRetryAfterWait)

MutNextBackoff(backoff) == backoff * 3

\* backoff *= 2
NextBackoff(backoff) == backoff * 2

\* except (httpx.ConnectError, httpx.ReadTimeout)
IsCaughtNetworkError(r) == r.status = 0 /\ r.exc \in {"ConnectError", "ReadTimeout"}

MutHasGraphQLErrors(r) == FALSE

\* "errors" in payload
HasGraphQLErrors(r) == r.body = "errors"

MutExhaustedError(last_exc, attempt) == Exc("RuntimeError", attempt)

\* raise last_exc or RuntimeError("GraphQL query failed after retries")
ExhaustedError(last_exc, attempt) ==
    IF last_exc # NoExc THEN last_exc ELSE Exc("RuntimeError", attempt)

(***************************************************************************)
(* _TTLCache.                                                              *)
(***************************************************************************)
MutIsFresh(now, inserted, ttl) == now - inserted < 0

\* time.time() - self._times[key] < self._ttl
IsFresh(now, inserted, ttl) == now - inserted < ttl

\* cache_key = f"contributions_v2:{username}"
CacheKey(username) == <<"contributions_v2", username>>

CacheKeys == {CacheKey(u) : u \in Usernames}

Remove(f, key) == [k \in DOMAIN f \ {key} |-> f[k]]

Put(f, key, value) == [k \in DOMAIN f \cup {key} |-> IF k = key THEN value ELSE f[k]]

MutTTLGet(store, times, key, now) ==
    IF key \in DOMAIN store /\ IsFresh(now, times[key], ttl_seconds)
    THEN [value |-> store[key], store |-> store, times |-> times]
    ELSE [value |-> Null, store |-> store, times |-> times]

\* _TTLCache.get: the value returned and the cache afterwards
TTLGet(store, times, key, now) ==
    IF key \in DOMAIN store
    THEN IF IsFresh(now, times[key], ttl_seconds)
         THEN [value |-> store[key], store |-> store, times |-> times]
         ELSE [value |-> Null, store |-> Remove(store, key), times |-> Remove(times, key)]
    ELSE [value |-> Null, store |-> store, times |-> times]

MutTTLSet(store, times, key, value, now) ==
    IF key \in DOMAIN store
    THEN [store |-> store, times |-> times]
    ELSE [store |-> Put(store, key, value), times |-> Put(times, key, now)]

\* _TTLCache.set: the cache afterwards
TTLSet(store, times, key, value, now) ==
    [store |-> Put(store, key, value), times |-> Put(times, key, now)]

(***************************************************************************)
(* State.                                                                  *)
(***************************************************************************)
VARIABLES
    token,          \* settings.GITHUB_TOKEN is non-empty
    clock,          \* time.time()
    _store,         \* _graphql_cache._store
    _times,         \* _graphql_cache._times
    _semaphore,     \* GitHubService._semaphore: free permits, one per service
    getsInFlight,   \* per service: _get calls holding a permit, GET in flight
    call,           \* per call: the frame of _graphql_query / fetch_contribution_data
    returned,       \* the frame of the call that ended last, as its caller sees it
    lastSet,        \* history: per cache key, value and time of the latest set
    purged,         \* history: per cache key, a get answered absent since the latest set
    got,            \* history: the latest direct _TTLCache.get and its answer
    succeeded,      \* history: per user and payload, time of the latest successful fetch
    analysis        \* the frame of the contribution analysis: arguments, locals, result

vars == <<token, clock, _store, _times, _semaphore, getsInFlight, call, returned,
          lastSet, purged, got, succeeded, analysis>>

NoTime == 0 - 1

IdleCall ==
    [pc |-> "idle", kind |-> "none", svc |-> 1, username |-> "none",
     attempt |-> 0, backoff |-> 0, last_exc |-> NoExc, wait |-> 0,
     posts |-> 0, sleeps |-> <<>>, hist |-> <<>>,
     execRaised |-> NoExc, raised |-> NoExc, data |-> Null, result |-> Null,
     cacheHit |-> FALSE, recent |-> {}, newest |-> {}, scorer |-> {}]

NeverSet == [value |-> Null, time |-> NoTime]

NoGet ==
    [key |-> CacheKey("none"), value |-> Null, now |-> NoTime,
     set |-> NeverSet, hadPurged |-> FALSE]

\* no contribution analysis has run
NoAnalysis == [fn |-> "none", pc |-> "idle"]

Init ==
    /\ token \in BOOLEAN
    /\ clock = 0
    /\ _store = <<>>
    /\ _times = <<>>
    /\ _semaphore = [s \in Services |-> _MAX_CONCURRENT_REQUESTS]
    /\ getsInFlight = [s \in Services |-> 0]
    /\ call = [c \in Calls |-> IdleCall]
    /\ returned = IdleCall
    /\ lastSet = [k \in CacheKeys |-> NeverSet]
    /\ purged = [k \in CacheKeys |-> FALSE]
    /\ got = NoGet
    /\ succeeded = [u \in Usernames |-> [p \in Payloads |-> NoTime]]
    /\ analysis = NoAnalysis

(***************************************************************************)
(* fetch_contribution_data: what happens once _graphql_query has returned  *)
(* data or raised exc (exc = NoExc when it returned).                      *)
(***************************************************************************)
MutFetchCatches(exc) ==
    exc.type \in {"HTTPStatusError", "ConnectError", "ReadTimeout", "ConnectTimeout"}

\* except Exception as exc: every exception type of the model derives from Exception
FetchCatches(exc) ==
    exc.type \in {"ValueError", "RuntimeError", "HTTPStatusError", "ConnectError",
                  "ReadTimeout", "ConnectTimeout"}

\* user_data = data.get("user"); None when the user is null
UserOf(data) == IF data \in Payloads THEN data ELSE Null

\* parse_contributions returns None exactly when raw_data is falsy
parse_contributions(raw_data) == IF raw_data = Null THEN Null ELSE "ContributionData"

\* _calculate_activity_score: the scorer functions it invokes
_calculate_activity_score(contribution_data) ==
    IF contribution_data # Null
    THEN {"_activity_score_from_contributions"}
    ELSE {"_activity_score_from_rest"}

\* an entry written where none is
MutCacheUnchanged ==
    /\ _store' = [k \in DOMAIN _store \cup {<<"contributions_v2", "alice">>} |-> "P1"]
    /\ _times' = [k \in DOMAIN _store \cup {<<"contributions_v2", "alice">>} |-> clock]
    /\ UNCHANGED succeeded

CacheUnchanged == UNCHANGED <<_store, _times, succeeded>>

\* _graphql_cache.set(cache_key, user_data), with its history
CacheWrite(key, username, value) ==
    LET s == TTLSet(_store, _times, key, value, clock)
    IN  /\ _store' = s.store
        /\ _times' = s.times
        /\ succeeded' = [succeeded EXCEPT ![username][value] = clock]

\* history: the payloads of the successful fetches for username of the last ttl seconds
RecentSuccesses(username) ==
    {p \in Payloads : /\ succeeded[username][p] # NoTime
                      /\ clock - succeeded[username][p] < ttl_seconds}

\* history: among them, the payloads of the most recent successful fetch
NewestSuccesses(username) ==
    {p \in RecentSuccesses(username) :
        \A q \in Payloads : succeeded[username][q] <= succeeded[username][p]}

\* call c ends: its frame goes to the caller and the call slot is free again
Finish(c, frame) ==
    /\ call' = [call EXCEPT ![c] = IdleCall]
    /\ returned' = [frame EXCEPT !.pc = "done"]

\* the exit of _graphql_query in call c, whose frame is rec
Complete(c, rec, exc, data) ==
    IF rec.kind = "execute"
    THEN /\ Finish(c, [rec EXCEPT !.execRaised = exc, !.raised = exc, !.data = data])
         /\ CacheUnchanged
    ELSE IF exc # NoExc
    THEN /\ Finish(c, [rec EXCEPT !.execRaised = exc,
                                  !.raised = IF FetchCatches(exc) THEN NoExc ELSE exc,
                                  !.result = Null])
         /\ CacheUnchanged
    ELSE IF UserOf(data) = Null
    THEN /\ Finish(c, [rec EXCEPT !.data = data, !.result = Null])
         /\ CacheUnchanged
    ELSE /\ Finish(c, [rec EXCEPT !.data = data, !.result = UserOf(data)])
         /\ CacheWrite(CacheKey(rec.username), rec.username, UserOf(data))

\* a permit that is never given back
MutRelease(s) == UNCHANGED _semaphore

\* the exit of async with self._semaphore
Release(s) == _semaphore' = [_semaphore EXCEPT ![s] = @ + 1]

EnterLoop(rec) ==
    [rec EXCEPT !.pc = "acquire", !.attempt = 1,
                !.backoff = _GRAPHQL_RETRY_BACKOFF, !.last_exc = NoExc]

(***************************************************************************)
(* Operations.                                                             *)
(***************************************************************************)
\* a direct call of _graphql_query on service s
ExecuteStart(c, s) ==
    /\ call[c].pc = "idle"
    /\ LET rec == [IdleCall EXCEPT !.kind = "execute", !.svc = s]
       IN  IF TokenMissing(token)
           THEN Finish(c, [rec EXCEPT !.execRaised = Exc("ValueError", 0),
                                      !.raised = Exc("ValueError", 0)])
           ELSE call' = [call EXCEPT ![c] = EnterLoop(rec)] /\ UNCHANGED returned
    /\ UNCHANGED <<analysis, token, clock, _store, _times, _semaphore, getsInFlight,
                   lastSet, purged, got, succeeded>>

\* fetch_contribution_data(client, username) on service s, up to its first
\* await: what it does to the calls and the cache
FetchBegin(c, s, u) ==
    /\ call[c].pc = "idle"
    /\ LET key == CacheKey(u)
           g == TTLGet(_store, _times, key, clock)
           rec == [IdleCall EXCEPT !.kind = "fetch", !.svc = s, !.username = u,
                                   !.recent = RecentSuccesses(u),
                                   !.newest = NewestSuccesses(u)]
       IN  /\ _store' = g.store
           /\ _times' = g.times
           /\ IF g.value # Null
              THEN Finish(c, [rec EXCEPT !.result = g.value, !.cacheHit = TRUE])
              ELSE IF TokenMissing(token)
              THEN Finish(c, [rec EXCEPT !.result = Null])
              ELSE call' = [call EXCEPT ![c] = EnterLoop(rec)] /\ UNCHANGED returned
    /\ UNCHANGED <<token, clock, _semaphore, getsInFlight, lastSet, purged, got, succeeded>>

\* fetch_contribution_data(client, username) on service s, up to its first await
FetchStart(c, s, u) == FetchBegin(c, s, u) /\ UNCHANGED analysis

\* async with self._semaphore, then client.post is issued
Acquire(c) ==
    /\ call[c].pc = "acquire"
    /\ _semaphore[call[c].svc] > 0
    /\ _semaphore' = [_semaphore EXCEPT ![call[c].svc] = @ - 1]
    /\ call' = [call EXCEPT ![c].pc = "posting", ![c].posts = @ + 1]
    /\ UNCHANGED <<analysis, token, clock, _store, _times, getsInFlight, returned,
                   lastSet, purged, got, succeeded>>

\* the POST of call c ends with answer r
Respond(c, r) ==
    /\ call[c].pc = "posting"
    /\ LET rec == [call[c] EXCEPT !.hist = Append(@, r)]
           s == rec.svc
       IN  IF r.status = 0
           THEN IF IsCaughtNetworkError(r)
                THEN /\ call' = [call EXCEPT ![c] =
                                    [rec EXCEPT !.pc = "sleep_network",
                                                !.last_exc = Exc(r.exc, rec.attempt),
                                                !.wait = rec.backoff,
                                                !.sleeps = Append(@, rec.backoff)]]
                     /\ UNCHANGED <<_semaphore, returned>>
                     /\ CacheUnchanged
                ELSE /\ Release(s)
                     /\ Complete(c, rec, Exc(r.exc, rec.attempt), Null)
           ELSE IF IsTransientStatus(r.status)
           THEN /\ call' = [call EXCEPT ![c] =
                               [rec EXCEPT !.pc = "sleep_transient",
                                           !.wait = rec.backoff,
                                           !.sleeps = Append(@, rec.backoff)]]
                /\ UNCHANGED <<_semaphore, returned>>
                /\ CacheUnchanged
           ELSE IF IsSecondaryRateLimit(r)
           THEN /\ call' = [call EXCEPT ![c] =
                               [rec EXCEPT !.pc = "sleep_rate_limit",
                                           !.wait = RetryAfterWait(r.retry_after),
                                           !.sleeps = Append(@, RetryAfterWait(r.retry_after))]]
                /\ UNCHANGED <<_semaphore, returned>>
                /\ CacheUnchanged
           ELSE IF r.status >= 400
           THEN /\ Release(s)
                /\ Complete(c, rec, Exc("HTTPStatusError", rec.attempt), Null)
           ELSE IF HasGraphQLErrors(r)
           THEN /\ Release(s)
                /\ Complete(c, rec, Exc("ValueError", rec.attempt), Null)
           ELSE /\ Release(s)
                /\ Complete(c, rec, NoExc, r.body)
    /\ UNCHANGED <<analysis, token, clock, getsInFlight, lastSet, purged, got>>

\* asyncio.sleep of call c ends: the permit is released and the loop goes on
Wake(c) ==
    /\ call[c].pc \in {"sleep_transient", "sleep_rate_limit", "sleep_network"}
    /\ LET rec == [call[c] EXCEPT !.wait = 0,
                      !.backoff = IF call[c].pc = "sleep_rate_limit"
                                  THEN @ ELSE NextBackoff(@)]
       IN  /\ Release(rec.svc)
           /\ IF rec.attempt < _MAX_GRAPHQL_RETRIES
              THEN /\ call' = [call EXCEPT ![c] =
                                  [rec EXCEPT !.pc = "acquire", !.attempt = @ + 1]]
                   /\ UNCHANGED returned
                   /\ CacheUnchanged
              ELSE Complete(c, rec, ExhaustedError(rec.last_exc, rec.attempt), Null)
    /\ UNCHANGED <<analysis, token, clock, getsInFlight, lastSet, purged, got>>

\* the analysis scores the activity from what the fetch returned
Score ==
    /\ returned.pc = "done"
    /\ returned.kind = "fetch"
    /\ returned.raised = NoExc
    /\ returned.scorer = {}
    /\ returned' = [returned EXCEPT !.scorer =
                       _calculate_activity_score(parse_contributions(returned.result))]
    /\ UNCHANGED <<analysis, token, clock, _store, _times, _semaphore, getsInFlight, call,
                   lastSet, purged, got, succeeded>>

\* time passes
Tick ==
    /\ clock + ClockStep \in ClockValues
    /\ clock' = clock + ClockStep
    /\ UNCHANGED <<analysis, token, _store, _times, _semaphore, getsInFlight, call, returned,
                   lastSet, purged, got, succeeded>>

\* GitHubService._get on service s: the permit is taken and the GET is issued
GetSend(s) ==
    /\ _semaphore[s] > 0
    /\ _semaphore' = [_semaphore EXCEPT ![s] = @ - 1]
    /\ getsInFlight' = [getsInFlight EXCEPT ![s] = @ + 1]
    /\ UNCHANGED <<analysis, token, clock, _store, _times, call, returned,
                   lastSet, purged, got, succeeded>>

\* GitHubService._get on service s: the GET returns or raises, the permit is released
GetReturn(s) ==
    /\ getsInFlight[s] > 0
    /\ Release(s)
    /\ getsInFlight' = [getsInFlight EXCEPT ![s] = @ - 1]
    /\ UNCHANGED <<analysis, token, clock, _store, _times, call, returned,
                   lastSet, purged, got, succeeded>>

(***************************************************************************)
(* SpecExec: one _graphql_query call against every answer of the remote.   *)
(***************************************************************************)
TheCall == 1

\* each analysis request builds its own GitHubService
ServiceOf(c) == ((c - 1) % NumServices) + 1

NextExec ==
    \/ ExecuteStart(TheCall, ServiceOf(TheCall))
    \/ Acquire(TheCall)
    \/ \E r \in AllResponses : Respond(TheCall, r)
    \/ Wake(TheCall)

SpecExec == Init /\ [][NextExec]_vars

(***************************************************************************)
(* Spec: concurrent fetch_contribution_data and _graphql_query calls over  *)
(* the shared cache, while time passes.                                    *)
(***************************************************************************)
Next ==
    \/ \E c \in Calls, u \in Usernames : FetchStart(c, ServiceOf(c), u)
    \/ \E c \in Calls : Acquire(c)
    \/ \E c \in Calls, r \in RaceResponses : Respond(c, r)
    \/ Tick

Spec == Init /\ [][Next]_vars

(***************************************************************************)
(* SpecFetch: one analysis after the other fetches the contribution data   *)
(* (or runs a query directly) and scores the activity, while time passes.  *)
(***************************************************************************)
NextFetch ==
    \/ \E u \in Usernames : FetchStart(TheCall, ServiceOf(TheCall), u)
    \/ ExecuteStart(TheCall, ServiceOf(TheCall))
    \/ Acquire(TheCall)
    \/ \E r \in FetchResponses : Respond(TheCall, r)
    \/ Wake(TheCall)
    \/ Score
    \/ Tick

SpecFetch == Init /\ [][NextFetch]_vars

(***************************************************************************)
(* SpecGate: the REST GETs and one GraphQL query of the services that the  *)
(* concurrent analysis requests have built.                                *)
(***************************************************************************)
NextGate ==
    \/ \E s \in Services : GetSend(s)
    \/ \E s \in Services : GetReturn(s)
    \/ \E s \in Services : ExecuteStart(TheCall, s)
    \/ Acquire(TheCall)
    \/ \E r \in GateResponses : Respond(TheCall, r)
    \/ Wake(TheCall)

SpecGate == Init /\ [][NextGate]_vars

(***************************************************************************)
(* SpecCache: _TTLCache under any sequence of set and get and any clock.   *)
(***************************************************************************)
\* _graphql_cache.set(key, value)
CacheSet(key, value) ==
    LET s == TTLSet(_store, _times, key, value, clock)
    IN  /\ _store' = s.store
        /\ _times' = s.times
        /\ lastSet' = [lastSet EXCEPT ![key] = [value |-> value, time |-> clock]]
        /\ purged' = [purged EXCEPT ![key] = FALSE]
        /\ UNCHANGED <<analysis, token, clock, _semaphore, getsInFlight, call, returned,
                       got, succeeded>>

\* _graphql_cache.get(key)
CacheGet(key) ==
    LET g == TTLGet(_store, _times, key, clock)
    IN  /\ _store' = g.store
        /\ _times' = g.times
        /\ got' = [key |-> key, value |-> g.value, now |-> clock,
                   set |-> lastSet[key], hadPurged |-> purged[key]]
        /\ purged' = [purged EXCEPT ![key] = @ \/ g.value = Null]
        /\ UNCHANGED <<analysis, token, clock, _semaphore, getsInFlight, call, returned,
                       lastSet, succeeded>>

\* time.time() reads the wall clock, which may also be set back
SetClock(t) ==
    /\ t # clock
    /\ clock' = t
    /\ UNCHANGED <<analysis, token, _store, _times, _semaphore, getsInFlight, call, returned,
                   lastSet, purged, got, succeeded>>

NextCache ==
    \/ \E key \in CacheKeys, value \in Payloads : CacheSet(key, value)
    \/ \E key \in CacheKeys : CacheGet(key)
    \/ \E t \in ClockValues : SetClock(t)

SpecCache == Init /\ [][NextCache]_vars

(***************************************************************************)
(* Properties of one _graphql_query call (SpecExec).                       *)
(***************************************************************************)
Last(seq) == seq[Len(seq)]

\* the running frame of the call and the frame of the call that ended last
Frames == {call[TheCall], returned}

AllIn(seq, S) == \A i \in 1..Len(seq) : seq[i] \in S

\* the answers after which _graphql_query sleeps and goes on with the loop
RetriedResponses == TransientResponses \cup RateLimitResponses \cup NetworkErrors

\* the call ended because the loop ran out of attempts
Exhausted(k) == k.pc = "done" /\ Len(k.hist) > 0 /\ Last(k.hist) \in RetriedResponses

\* C2: when every attempt of one call is answered 502 or 503, the call makes
\* exactly 3 POSTs, waits 1 s before the second and 2 s before the third,
\* and ends by raising an error, returning no data.
C2_TransientBudget ==
    \A k \in Frames :
        (k.kind = "execute" /\ AllIn(k.hist, TransientResponses)) =>
            /\ k.posts <= 3
            /\ (k.posts = 2 /\ k.pc = "posting") => k.sleeps = <<1>>
            /\ (k.posts = 3 /\ k.pc = "posting") => k.sleeps = <<1, 2>>
            /\ (k.pc = "done" /\ k.hist # <<>>) =>
                   /\ k.posts = 3
                   /\ SubSeq(k.sleeps, 1, 2) = <<1, 2>>
                   /\ k.raised.type = "RuntimeError"
                   /\ k.data = Null

C2_Witness ==
    LET k == returned IN
        /\ k.pc = "done"
        /\ Len(k.hist) = 3
        /\ AllIn(k.hist, TransientResponses)
        /\ k.hist[1].status = 502
        /\ k.hist[2].status = 503

\* the number of answers of seq that lie in S
CountIn(seq, S) == Cardinality({i \in 1..Len(seq) : seq[i] \in S})

\* 2^n for the few n the loop can reach
Pow2(n) == CASE n = 0 -> 1 [] n = 1 -> 2 [] n = 2 -> 4 [] OTHER -> 8

\* C3 (as stated): a 403 with Retry-After does not consume the retry budget,
\* so a call runs out of attempts only after 3 answers that are not such 403s.
C3_RateLimitKeepsBudget ==
    \A k \in Frames :
        Exhausted(k) => CountIn(k.hist, TransientResponses \cup NetworkErrors) = 3

\* C3 (amended): a 403 with Retry-After makes the call sleep min(Retry-After, 60)
\* seconds and go on with the loop without doubling the backoff, but it uses up
\* one of the 3 attempts like any other retried answer: the call never makes
\* more than 3 POSTs, a later successful answer is returned only when at most 2
\* retried answers precede it, and after a third retried answer the call raises.
C3_RateLimitConsumesAttempt ==
    \A k \in Frames : LET n == Len(k.hist) IN
        /\ (k.pc = "sleep_rate_limit" /\ Last(k.hist).retry_after = 30) =>
               (k.wait = 30 /\ Last(k.sleeps) = 30)
        /\ (k.pc = "sleep_rate_limit" /\ Last(k.hist).retry_after = 90) =>
               (k.wait = 60 /\ Last(k.sleeps) = 60)
        /\ k.pc \in {"acquire", "posting"} =>
               k.backoff = Pow2(CountIn(k.hist, TransientResponses \cup NetworkErrors))
        /\ k.posts <= 3
        /\ (k.pc = "done" /\ n > 0 /\ Last(k.hist).body \in Payloads) =>
               (k.data = Last(k.hist).body /\ k.raised = NoExc /\ n <= 3)
        /\ (k.pc = "done" /\ n = 3 /\ Last(k.hist) \in RateLimitResponses) =>
               (k.raised # NoExc /\ k.data = Null)

C3_Witness ==
    LET k == returned IN
        /\ k.pc = "done"
        /\ Len(k.hist) = 3
        /\ k.hist[1] \in RateLimitResponses
        /\ k.hist[2] \in TransientResponses
        /\ k.hist[3] \in RateLimitResponses
        /\ k.hist[3].retry_after = 90
        /\ k.sleeps = <<k.hist[1].retry_after, 1, 60>>

\* C4: a 2xx answer whose payload carries an errors array ends the call at
\* once with a ValueError: that answer is the last POST of the call and no
\* sleep follows it, on whichever attempt it arrives.
C4_GraphQLErrorsNotRetried ==
    \A k \in Frames :
        (k.hist # <<>> /\ Last(k.hist).body = "errors") =>
            /\ k.pc = "done"
            /\ k.raised.type = "ValueError"
            /\ k.raised.attempt = Len(k.hist)
            /\ k.data = Null
            /\ k.posts = Len(k.hist)
            /\ Len(k.sleeps) = Len(k.hist) - 1
            /\ k.wait = 0

C4_Witness ==
    LET k == returned IN
        /\ Len(k.hist) = 2
        /\ k.hist[1] \in TransientResponses
        /\ k.hist[2].body = "errors"
        /\ k.pc = "done"

\* the attempt of the latest caught network error of seq, 0 when there is none
LastNetworkAttempt(seq) ==
    LET S == {i \in 1..Len(seq) : seq[i] \in NetworkErrors}
    IN  IF S = {} THEN 0 ELSE CHOOSE i \in S : \A j \in S : j <= i

\* C5 (as stated): when a call that met a network error runs out of attempts,
\* the exception it raises is the cause of its last failing attempt.
C5_RaisesLastFailure ==
    \A k \in Frames :
        (Exhausted(k) /\ LastNetworkAttempt(k.hist) > 0) =>
            k.raised.attempt = Len(k.hist)

\* C5 (amended): ConnectError and ReadTimeout are retried with the 1 s, 2 s
\* doubling backoff within the 3 attempts; a call that runs out of attempts
\* after at least one of them raises the most recent network exception, never
\* the generic error.  That exception is the cause of the last attempt only if
\* the last attempt failed with a network error: when later attempts failed
\* with 502/503 or a rate-limit 403, it is older than the last failure.
C5_RaisesLatestNetworkError ==
    \A k \in Frames : LET a == LastNetworkAttempt(k.hist) IN
        /\ (k.kind = "execute" /\ AllIn(k.hist, NetworkErrors)) =>
               /\ k.posts <= 3
               /\ (k.posts = 2 /\ k.pc = "posting") => k.sleeps = <<1>>
               /\ (k.posts = 3 /\ k.pc = "posting") => k.sleeps = <<1, 2>>
               /\ (k.pc = "done" /\ k.hist # <<>>) => k.posts = 3
        /\ (Exhausted(k) /\ a > 0) =>
               /\ k.raised = Exc(k.hist[a].exc, a)
               /\ k.raised.type \in {"ConnectError", "ReadTimeout"}
               /\ k.data = Null

C5_Witness ==
    LET k == returned IN
        /\ Exhausted(k)
        /\ k.hist[1].exc = "ConnectError"
        /\ k.hist[2].exc = "ReadTimeout"
        /\ k.hist[3] \in TransientResponses
        /\ k.raised = Exc("ReadTimeout", 2)

(***************************************************************************)
(* Properties of one fetch_contribution_data call after the other          *)
(* (SpecFetch).                                                            *)
(***************************************************************************)
\* the fetch ended without a payload from the remote or from the cache
FetchFailed(k) ==
    /\ k.pc = "done"
    /\ k.kind = "fetch"
    /\ ~k.cacheHit
    /\ (k.hist = <<>> \/ Last(k.hist).body \notin Payloads)

C7_NoTokenNoCall ==
    ~token =>
        /\ \A c \in Calls : call[c].pc = "idle"
        /\ \A s \in Services : _semaphore[s] = 5
        /\ returned.posts = 0
        /\ returned.hist = <<>>
        /\ returned.kind = "execute" =>
               (returned.raised.type = "ValueError" /\ returned.data = Null)
        /\ returned.kind = "fetch" =>
               /\ returned.result = Null
               /\ returned.raised = NoExc
               /\ returned.scorer \subseteq {"_activity_score_from_rest"}

C7_Witness ==
    /\ ~token
    /\ returned.pc = "done"
    /\ returned.kind = "fetch"
    /\ ~returned.cacheHit
    /\ returned.scorer = {"_activity_score_from_rest"}

(***************************************************************************)
(* Properties of concurrent fetch_contribution_data calls (Spec).          *)
(***************************************************************************)
\* the running frames and the frame of the call that ended last
AllFrames == {call[c] : c \in Calls} \cup {returned}

\* C9 (as stated): a fetch for a user that starts less than 300 s after a
\* successful fetch for that user is answered from the cache, issues no POST
\* and returns the payload of that successful fetch.
C9_WarmReturnsSamePayload ==
    \A k \in AllFrames :
        (k.kind = "fetch" /\ k.recent # {}) =>
            /\ k.cacheHit
            /\ k.posts = 0
            /\ k.recent = {k.result}

\* C9 (amended): a fetch for a user that starts less than 300 s after a
\* successful fetch for that user is answered from the cache and issues no
\* POST; it returns the payload of the most recent successful fetch for that
\* user, which is the payload of the earlier success unless another fetch for
\* the user, having missed the cache before, succeeded in between.
C9_WarmReturnsNewestPayload ==
    \A k \in AllFrames :
        (k.kind = "fetch" /\ k.recent # {}) =>
            /\ k.cacheHit
            /\ k.pc = "done"
            /\ k.posts = 0
            /\ k.hist = <<>>
            /\ k.result \in k.newest

C9_Witness ==
    /\ returned.cacheHit
    /\ returned.recent = {"P1", "P2"}
    /\ returned.newest = {"P2"}
    /\ returned.result = "P2"

\* C10 (as stated): a cache entry, once set, keeps its value and its insertion
\* time until it expires.
C10_EntryImmutable ==
    [][\A key \in DOMAIN _store \cap DOMAIN _store' :
            clock - _times[key] < 300 =>
                (_store'[key] = _store[key] /\ _times'[key] = _times[key])]_vars

\* C10 (amended): under every interleaving of concurrent fetches the cache
\* entry of a user, while there is one, holds a payload returned by a
\* successful fetch for that user, namely the payload and the time of the
\* most recent one: the fetch that loses the race overwrites the value and the
\* insertion time of the entry the winner has set.
C10_EntryIsLatestSuccess ==
    \A u \in Usernames :
        CacheKey(u) \in DOMAIN _store =>
            LET v == _store[CacheKey(u)]
                t == _times[CacheKey(u)]
            IN  /\ v \in Payloads
                /\ succeeded[u][v] = t
                /\ \A p \in Payloads : succeeded[u][p] <= t
                /\ DOMAIN _times = DOMAIN _store

C10_Witness ==
    /\ CacheKey("alice") \in DOMAIN _store
    /\ _store[CacheKey("alice")] = "P2"
    /\ _times[CacheKey("alice")] = 150
    /\ succeeded["alice"]["P1"] = 0
    /\ clock = 150
    /\ CacheKey("bob") \notin DOMAIN _store

(***************************************************************************)
(* Properties of the concurrency gate (SpecGate).                          *)
(***************************************************************************)
RECURSIVE SumOver(_, _)
SumOver(f, S) ==
    IF S = {} THEN 0
    ELSE LET x == CHOOSE y \in S : TRUE IN f[x] + SumOver(f, S \ {x})

\* the outbound calls in flight in the process: REST GETs and GraphQL POSTs
InFlight ==
    SumOver(getsInFlight, Services) + Cardinality({c \in Calls : call[c].pc = "posting"})

\* C1: at every instant at most 5 outbound calls (REST GETs plus GraphQL
\* POSTs) are in flight in the whole process, over all GitHubService objects.
C1_ProcessWideLimit == InFlight <= 5

(***************************************************************************)
(* Properties of _TTLCache (SpecCache).                                    *)
(***************************************************************************)
\* C8: get(key) answers with a value only if that value is the one of the
\* latest set for the key, less than 300 s have passed since that set, and no
\* get has answered absent since; otherwise it answers absent; and once a get
\* has answered absent the key stays out of the cache until the next set.
C8_TTLEviction ==
    /\ got.value # Null =>
           /\ got.value = got.set.value
           /\ got.now - got.set.time < 300
           /\ ~got.hadPurged
    /\ (got.now # NoTime /\ got.value = Null) =>
           \/ got.set = NeverSet
           \/ got.hadPurged
           \/ got.now - got.set.time >= 300
    /\ \A key \in CacheKeys : purged[key] => key \notin DOMAIN _store
    /\ DOMAIN _times = DOMAIN _store

C8_Witness ==
    /\ got.value = Null
    /\ got.set.value = "P1"
    /\ got.now - got.set.time = 300
    /\ ~got.hadPurged
    /\ purged[got.key]
    /\ clock < got.now

(***************************************************************************)
(* Python numbers.  An int is unbounded; a float is an IEEE-754 binary64,  *)
(* and every float operation returns the binary64 nearest to the exact     *)
(* result, ties to even.  Naturals beyond the machine word are sequences   *)
(* of limbs, least significant first, without leading zero limbs.          *)
(***************************************************************************)
LimbBase == 32768

LimbBits == 15

MantissaBits == 53

RECURSIVE TwoTo(_)
TwoTo(n) == IF n = 0 THEN 1 ELSE 2 * TwoTo(n - 1)

RECURSIVE BitLen(_)
BitLen(n) == IF n = 0 THEN 0 ELSE 1 + BitLen(n \div 2)

RECURSIVE BigNorm(_)
BigNorm(a) ==
    IF a = <<>> THEN a
    ELSE IF a[Len(a)] = 0 THEN BigNorm(SubSeq(a, 1, Len(a) - 1)) ELSE a

RECURSIVE BigOfNat(_)
BigOfNat(n) == IF n = 0 THEN <<>> ELSE <<n % LimbBase>> \o BigOfNat(n \div LimbBase)

RECURSIVE BigToNat(_)
BigToNat(a) == IF a = <<>> THEN 0 ELSE a[1] + LimbBase * BigToNat(Tail(a))

Limb(a, i) == IF i <= Len(a) THEN a[i] ELSE 0

RECURSIVE BigAddFrom(_, _, _, _)
BigAddFrom(a, b, i, carry) ==
    IF i > Len(a) /\ i > Len(b)
    THEN IF carry = 0 THEN <<>> ELSE <<carry>>
    ELSE LET t == Limb(a, i) + Limb(b, i) + carry
         IN  <<t % LimbBase>> \o BigAddFrom(a, b, i + 1, t \div LimbBase)

BigAdd(a, b) == BigAddFrom(a, b, 1, 0)

RECURSIVE BigSubFrom(_, _, _, _)
BigSubFrom(a, b, i, borrow) ==
    IF i > Len(a) THEN <<>>
    ELSE LET t == Limb(a, i) - Limb(b, i) - borrow
         IN  IF t < 0
             THEN <<t + LimbBase>> \o BigSubFrom(a, b, i + 1, 1)
             ELSE <<t>> \o BigSubFrom(a, b, i + 1, 0)

\* a - b for a >= b
BigSub(a, b) == BigNorm(BigSubFrom(a, b, 1, 0))

RECURSIVE BigCmpAt(_, _, _)
BigCmpAt(a, b, i) ==
    IF i = 0 THEN 0
    ELSE IF a[i] > b[i] THEN 1
    ELSE IF a[i] < b[i] THEN 0 - 1
    ELSE BigCmpAt(a, b, i - 1)

\* -1, 0 or 1 as a < b, a = b or a > b
BigCmp(a, b) ==
    IF Len(a) > Len(b) THEN 1
    ELSE IF Len(a) < Len(b) THEN 0 - 1
    ELSE BigCmpAt(a, b, Len(a))

RECURSIVE BigMulSmallFrom(_, _, _, _)
BigMulSmallFrom(a, k, i, carry) ==
    IF i > Len(a)
    THEN IF carry = 0 THEN <<>> ELSE <<carry>>
    ELSE LET t == a[i] * k + carry
         IN  <<t % LimbBase>> \o BigMulSmallFrom(a, k, i + 1, t \div LimbBase)

\* a * k for 0 <= k < LimbBase
BigMulSmall(a, k) == IF k = 0 THEN <<>> ELSE BigMulSmallFrom(a, k, 1, 0)

BigShiftLimb(a) == IF a = <<>> THEN a ELSE <<0>> \o a

RECURSIVE BigMulFrom(_, _, _)
BigMulFrom(a, b, j) ==
    IF j > Len(b) THEN <<>>
    ELSE BigAdd(BigMulSmall(a, b[j]), BigShiftLimb(BigMulFrom(a, b, j + 1)))

BigMul(a, b) == BigMulFrom(a, b, 1)

BigLen(a) == IF a = <<>> THEN 0 ELSE (Len(a) - 1) * LimbBits + BitLen(a[Len(a)])

\* a * 2^k
BigShl(a, k) ==
    IF a = <<>> THEN a
    ELSE [i \in 1..(k \div LimbBits) |-> 0] \o BigMulSmall(a, TwoTo(k % LimbBits))

\* the limbs of b shifted down by the bits that low = 2^bits takes off
BigShrBits(b, low, high) ==
    BigNorm([i \in 1..Len(b) |-> (b[i] \div low) + (Limb(b, i + 1) % low) * high])

\* a \div 2^k
BigShr(a, k) ==
    IF k \div LimbBits >= Len(a) THEN <<>>
    ELSE BigShrBits(SubSeq(a, (k \div LimbBits) + 1, Len(a)),
                    TwoTo(k % LimbBits), TwoTo(LimbBits - (k % LimbBits)))

\* the largest digit g <= guess with d * g <= r
RECURSIVE QuotDigit(_, _, _)
QuotDigit(r, d, guess) ==
    IF BigCmp(BigMulSmall(d, guess), r) <= 0 THEN guess
    ELSE QuotDigit(r, d, guess - 1)

\* a digit that is at least r \div d and at most two more, for r < d * LimbBase
\* and d with its top limb at least LimbBase \div 2
GuessDigit(r, d) ==
    IF Len(r) < Len(d) THEN 0
    ELSE Min((Limb(r, Len(d) + 1) * LimbBase + r[Len(d)]) \div d[Len(d)], LimbBase - 1)

RECURSIVE BigDivLimb(_, _, _, _, _)

\* long division at limb i of n: g is the digit of the quotient for the
\* running remainder r, which a digit 0 leaves as it is
BigDivDigit(n, d, i, q, r, g) ==
    IF i = 1
    THEN [q |-> BigNorm(<<g>> \o q),
          r |-> IF g = 0 THEN r ELSE BigSub(r, BigMulSmall(d, g))]
    ELSE IF g = 0
    THEN BigDivLimb(n, d, i - 1, <<0>> \o q, BigNorm(<<n[i - 1]>> \o r))
    ELSE BigDivLimb(n, d, i - 1, <<g>> \o q,
                    BigNorm(<<n[i - 1]>> \o BigSub(r, BigMulSmall(d, g))))

BigDivLimb(n, d, i, q, r) == BigDivDigit(n, d, i, q, r, QuotDigit(r, d, GuessDigit(r, d)))

\* long division, one limb of n at a time, from the Len(d) top limbs of n on
BigDivAll(n, d) ==
    IF Len(n) < Len(d) THEN [q |-> <<>>, r |-> n]
    ELSE BigDivLimb(n, d, Len(n) - Len(d) + 1, <<>>,
                    SubSeq(n, Len(n) - Len(d) + 1, Len(n)))

BigUnshift(qr, s) == [q |-> qr.q, r |-> BigShr(qr.r, s)]

BigDivShifted(n, d, s) == BigUnshift(BigDivAll(BigShl(n, s), BigShl(d, s)), s)

\* quotient and remainder of n by d > 0: both are shifted until the top limb
\* of d is at least LimbBase \div 2, which leaves the quotient as it is
BigDivMod(n, d) == BigDivShifted(n, d, LimbBits - BitLen(d[Len(d)]))

\* the float (-1)^neg * m * 2^e, with m = 0 or 2^52 <= m < 2^53
Float(neg, m, e) == [neg |-> neg, m |-> m, e |-> e]

FZero == Float(FALSE, <<>>, 0)

\* hi + 1 when the bits cut off, rest of k bits and the sticky one, are more
\* than half a unit of hi, or exactly half and hi is odd
BigRoundUp(hi, rest, k, sticky) ==
    IF \/ BigCmp(rest, BigShl(<<1>>, k - 1)) = 1
       \/ BigCmp(rest, BigShl(<<1>>, k - 1)) = 0 /\ (sticky \/ hi[1] % 2 = 1)
    THEN BigAdd(hi, <<1>>)
    ELSE hi

\* the float of the rounded mantissa m, one bit longer when the rounding carried
FloatOfRounded(neg, m, e) ==
    IF BigLen(m) > MantissaBits THEN Float(neg, BigShr(m, 1), e + 1) ELSE Float(neg, m, e)

\* q of more than MantissaBits bits, cut by k bits to hi
RoundCut(neg, q, sticky, e, k, hi) ==
    FloatOfRounded(neg, BigRoundUp(hi, BigSub(q, BigShl(hi, k)), k, sticky), e + k)

RoundOfLen(neg, q, sticky, e, len) ==
    IF len <= MantissaBits
    THEN Float(neg, BigShl(q, MantissaBits - len), e - (MantissaBits - len))
    ELSE RoundCut(neg, q, sticky, e, len - MantissaBits, BigShr(q, len - MantissaBits))

\* the float nearest to (-1)^neg * (q + f) * 2^e, where 0 <= f < 1 and
\* sticky tells f # 0: round to nearest, ties to even
RoundNearestEven(neg, q, sticky, e) ==
    IF q = <<>> THEN FZero ELSE RoundOfLen(neg, q, sticky, e, BigLen(q))

RoundQuotient(neg, qr, e) == RoundNearestEven(neg, qr.q, qr.r # <<>>, e)

\* p / q with p scaled by 2^s, so that the quotient has MantissaBits + 2 bits
FRatioScaled(neg, p, q, e, s) ==
    RoundQuotient(neg,
                  BigDivMod(IF s >= 0 THEN BigShl(p, s) ELSE p,
                            IF s >= 0 THEN q ELSE BigShl(q, 0 - s)),
                  e - s)

\* the float nearest to (-1)^neg * (p / q) * 2^e, for naturals p and q > 0
FRatio(neg, p, q, e) ==
    IF p = <<>> THEN FZero
    ELSE FRatioScaled(neg, p, q, e, MantissaBits + 2 + BigLen(q) - BigLen(p))

Abs(n) == IF n < 0 THEN 0 - n ELSE n

\* float(n) for an int n, and the literal n / d written in decimal
FOfInt(n) == RoundNearestEven(n < 0, BigOfNat(Abs(n)), FALSE, 0)

\* n / d of two ints (d > 0), and the float of the decimal literal n/d
FOfRatio(n, d) == FRatio(n < 0, BigOfNat(Abs(n)), BigOfNat(d), 0)

FNeg(a) == IF a.m = <<>> THEN a ELSE [a EXCEPT !.neg = ~a.neg]

FSign(a) == IF a.m = <<>> THEN 0 ELSE IF a.neg THEN 0 - 1 ELSE 1

\* -1, 0 or 1 as a < b, a = b or a > b
FCmp(a, b) ==
    IF FSign(a) # FSign(b) THEN (IF FSign(a) > FSign(b) THEN 1 ELSE 0 - 1)
    ELSE IF FSign(a) = 0 THEN 0
    ELSE FSign(a) * (IF a.e > b.e THEN 1
                     ELSE IF a.e < b.e THEN 0 - 1
                     ELSE BigCmp(a.m, b.m))

FGt(a, b) == FCmp(a, b) = 1

FGe(a, b) == FCmp(a, b) >= 0

\* the sum of (-1)^aneg * x and (-1)^bneg * y, both in units of 2^e
FAddAligned(aneg, x, bneg, y, e) ==
    RoundNearestEven(IF aneg = bneg \/ BigCmp(x, y) >= 0 THEN aneg ELSE bneg,
                     IF aneg = bneg THEN BigAdd(x, y)
                     ELSE IF BigCmp(x, y) >= 0 THEN BigSub(x, y) ELSE BigSub(y, x),
                     FALSE, e)

\* a + b
FAdd(a, b) ==
    IF a.m = <<>> THEN b
    ELSE IF b.m = <<>> THEN a
    ELSE FAddAligned(a.neg, BigShl(a.m, a.e - Min(a.e, b.e)),
                     b.neg, BigShl(b.m, b.e - Min(a.e, b.e)), Min(a.e, b.e))

\* a - b
FSub(a, b) == FAdd(a, FNeg(b))

\* a * b
FMul(a, b) == RoundNearestEven(a.neg # b.neg, BigMul(a.m, b.m), FALSE, a.e + b.e)

\* a / b for b # 0
FDiv(a, b) == FRatio(a.neg # b.neg, a.m, b.m, a.e - b.e)

\* the int nearest to n / 2^k, with hi = n \div 2^k; ties to even
BigNearest(n, k, hi) ==
    BigToNat(BigRoundUp(IF hi = <<>> THEN <<0>> ELSE hi, BigSub(n, BigShl(hi, k)), k, FALSE))

Signed(neg, v) == IF neg THEN 0 - v ELSE v

\* round(a * scale) as an int, for scale = 10^ndigits: the exact value of a
\* is rounded to ndigits decimals, ties to even, as round(a, ndigits) does
RoundScaled(a, scale) ==
    IF a.m = <<>> THEN 0
    ELSE Signed(a.neg, BigNearest(BigMulSmall(a.m, scale), 0 - a.e,
                                  BigShr(BigMulSmall(a.m, scale), 0 - a.e)))

(***************************************************************************)
(* Calendar dates.  A date string "YYYY-MM-DD" is <<year, month, day>>;    *)
(* the order of the zero-padded strings is the order of the triples.       *)
(***************************************************************************)
\* the smaller of the two
MutMax(a, b) == IF a > b THEN b ELSE a

Max(a, b) == IF a > b THEN a ELSE b

\* is_leap = yr % 4 == 0 and (yr % 100 != 0 or yr % 400 == 0)
IsLeap(yr) == yr % 4 = 0 /\ (yr % 100 # 0 \/ yr % 400 = 0)

DaysInMonth(yr, mo) ==
    CASE mo = 2 -> IF IsLeap(yr) THEN 29 ELSE 28
      [] mo \in {4, 6, 9, 11} -> 30
      [] OTHER -> 31

RECURSIVE DaysBeforeMonth(_, _)
DaysBeforeMonth(yr, mo) ==
    IF mo = 1 THEN 0 ELSE DaysBeforeMonth(yr, mo - 1) + DaysInMonth(yr, mo - 1)

DaysBeforeYear(yr) ==
    LET y == yr - 1 IN y * 365 + (y \div 4) - (y \div 100) + (y \div 400)

\* datetime.strptime(ds, "%Y-%m-%d").date(), as the day number date.toordinal()
ToOrdinal(ds) == DaysBeforeYear(ds[1]) + DaysBeforeMonth(ds[1], ds[2]) + ds[3]

\* a < b on the date strings
DateStringLess(a, b) ==
    \/ a[1] < b[1]
    \/ a[1] = b[1] /\ a[2] < b[2]
    \/ a[1] = b[1] /\ a[2] = b[2] /\ a[3] < b[3]

\* sorted(S) for a set S of date strings
RECURSIVE SortedDates(_)
SortedDates(S) ==
    IF S = {} THEN <<>>
    ELSE LET first == CHOOSE a \in S : \A b \in S : a = b \/ DateStringLess(a, b)
         IN  <<first>> \o SortedDates(S \ {first})

(***************************************************************************)
(* GitHubService._compute_streaks.                                         *)
(***************************************************************************)
MutActiveDates(contribution_days) ==
    {contribution_days[i][1] : i \in DOMAIN contribution_days}

\* {d for d, c in contribution_days if c > 0}
ActiveDates(contribution_days) ==
    {contribution_days[i][1] :
        i \in {j \in DOMAIN contribution_days : contribution_days[j][2] > 0}}

\* (curr - prev).days
DayGap(prev, curr) == ToOrdinal(curr) - ToOrdinal(prev)

\* the first loop, from index i on, with the run and the longest run so far
RECURSIVE LongestFrom(_, _, _, _)
LongestFrom(active_dates, i, run, longest) ==
    IF i > Len(active_dates) THEN longest
    ELSE IF DayGap(active_dates[i - 1], active_dates[i]) = 1
    THEN LongestFrom(active_dates, i + 1, run + 1, Max(longest, run + 1))
    ELSE LongestFrom(active_dates, i + 1, 1, longest)

MutIsTodayOrYesterday(last_active, today) == ToOrdinal(last_active) = ToOrdinal(today)

\* last_active in (today, today - timedelta(days=1))
IsTodayOrYesterday(last_active, today) ==
    ToOrdinal(last_active) \in {ToOrdinal(today), ToOrdinal(today) - 1}

RECURSIVE MutCurrentFrom(_, _, _)
MutCurrentFrom(active_dates, i, current_streak) ==
    IF i < 2 THEN current_streak
    ELSE IF DayGap(active_dates[i - 1], active_dates[i]) = 1
    THEN MutCurrentFrom(active_dates, i - 1, current_streak + 1)
    ELSE MutCurrentFrom(active_dates, i - 1, current_streak)

\* the second loop, from index i down, which breaks at the first gap
RECURSIVE CurrentFrom(_, _, _)
CurrentFrom(active_dates, i, current_streak) ==
    IF i < 2 THEN current_streak
    ELSE IF DayGap(active_dates[i - 1], active_dates[i]) = 1
    THEN CurrentFrom(active_dates, i - 1, current_streak + 1)
    ELSE current_streak

\* <<longest_streak, current_streak>>; today is datetime.now(timezone.utc).date()
_compute_streaks(contribution_days, today) ==
    LET active_dates == SortedDates(ActiveDates(contribution_days))
    IN  IF active_dates = <<>> THEN <<0, 0>>
        ELSE IF ~IsTodayOrYesterday(active_dates[Len(active_dates)], today)
        THEN <<LongestFrom(active_dates, 2, 1, 1), 0>>
        ELSE <<LongestFrom(active_dates, 2, 1, 1),
               CurrentFrom(active_dates, Len(active_dates), 1)>>

(***************************************************************************)
(* SpecStreaks: _compute_streaks on every short list of daily pairs of a   *)
(* week around a new year, on the days that follow.                        *)
(***************************************************************************)
\* the most daily (date, count) pairs of one list
MaxDayPairs == 3

StreakDates ==
    {<<2023, 12, 31>>, <<2024, 1, 1>>, <<2024, 1, 2>>, <<2024, 1, 3>>, <<2024, 1, 4>>}

StreakCounts == {0, 2}

StreakTodays == {<<2024, 1, 4>>, <<2024, 1, 5>>, <<2024, 1, 6>>}

DayLists == UNION {[1..n -> StreakDates \X StreakCounts] : n \in 0..MaxDayPairs}

\* the variables of the transport, the cache and the fetcher
ServiceVars ==
    <<token, clock, _store, _times, _semaphore, getsInFlight, call, returned,
      lastSet, purged, got, succeeded>>

\* a contribution analysis runs on a fetched payload, hence with a token
InitAnalysis == Init /\ token

ComputeStreaks(contribution_days, today) ==
    /\ analysis.fn = "none"
    /\ analysis' = [fn |-> "_compute_streaks", pc |-> "done",
                    contribution_days |-> contribution_days, today |-> today,
                    longest_streak |-> _compute_streaks(contribution_days, today)[1],
                    current_streak |-> _compute_streaks(contribution_days, today)[2]]
    /\ UNCHANGED ServiceVars

NextStreaks ==
    \E contribution_days \in DayLists, today \in StreakTodays :
        ComputeStreaks(contribution_days, today)

SpecStreaks == InitAnalysis /\ [][NextStreaks]_vars

(***************************************************************************)
(* Properties of _compute_streaks (SpecStreaks).                           *)
(***************************************************************************)
\* the days of the lists and of today, numbered from 2023-12-31
DayNumber(ds) ==
    CASE ds = <<2023, 12, 31>> -> 0
      [] ds = <<2024, 1, 1>> -> 1
      [] ds = <<2024, 1, 2>> -> 2
      [] ds = <<2024, 1, 3>> -> 3
      [] ds = <<2024, 1, 4>> -> 4
      [] ds = <<2024, 1, 5>> -> 5
      [] ds = <<2024, 1, 6>> -> 6

Streaked == analysis.fn = "_compute_streaks"

\* the day numbers of the dates with a pair of positive count
ActiveDayNumbers ==
    {DayNumber(analysis.contribution_days[i][1]) :
        i \in {j \in DOMAIN analysis.contribution_days :
                  analysis.contribution_days[j][2] > 0}}

\* the n days from day a on are all in S
IsRun(S, a, n) == \A j \in 0..(n - 1) : a + j \in S

HasRun(S, n) == \E a \in S : IsRun(S, a, n)

\* the length of the longest run of consecutive days of S
LongestRun(S) ==
    IF S = {} THEN 0
    ELSE CHOOSE n \in 1..Cardinality(S) :
             HasRun(S, n) /\ \A m \in (n + 1)..Cardinality(S) : ~HasRun(S, m)

\* the length of the maximal run of consecutive days of S that ends at day z
RunEndingAt(S, z) ==
    CHOOSE n \in 1..Cardinality(S) : IsRun(S, z - n + 1, n) /\ (z - n) \notin S

MostRecent(S) == CHOOSE z \in S : \A x \in S : x <= z

\* C15 (as stated): for the active dates 2024-01-01, 2024-01-02 and 2024-01-04
\* the longest streak is 2, and the current streak is 0 when today is
\* 2024-01-05 and 1 when today is 2024-01-04.
C15_StreakExample ==
    (Streaked /\ ActiveDayNumbers = {1, 2, 4}) =>
        /\ analysis.longest_streak = 2
        /\ analysis.today = <<2024, 1, 5>> => analysis.current_streak = 0
        /\ analysis.today = <<2024, 1, 4>> => analysis.current_streak = 1

\* C15 (amended): for the active dates 2024-01-01, 2024-01-02 and 2024-01-04
\* the longest streak is 2; the current streak is 1 when today is 2024-01-04
\* and also when today is 2024-01-05, because 2024-01-04 is then yesterday;
\* it is 0 only from 2024-01-06 on.
C15_StreakExampleCountsYesterday ==
    (Streaked /\ ActiveDayNumbers = {1, 2, 4}) =>
        /\ analysis.longest_streak = 2
        /\ analysis.today = <<2024, 1, 4>> => analysis.current_streak = 1
        /\ analysis.today = <<2024, 1, 5>> => analysis.current_streak = 1
        /\ analysis.today = <<2024, 1, 6>> => analysis.current_streak = 0

C15_Witness ==
    /\ Streaked
    /\ ActiveDayNumbers = {1, 2, 4}
    /\ analysis.today = <<2024, 1, 5>>
    /\ analysis.current_streak = 1

\* C16: the current streak is 0 unless the most recent active date is today
\* or yesterday; when it is, the current streak is the length of the maximal
\* run of consecutive active dates that ends at the most recent active date.
C16_CurrentStreak ==
    Streaked =>
        LET S == ActiveDayNumbers
            t == DayNumber(analysis.today)
        IN  IF S # {} /\ MostRecent(S) \in {t, t - 1}
            THEN analysis.current_streak = RunEndingAt(S, MostRecent(S))
            ELSE analysis.current_streak = 0

C16_Witness ==
    /\ Streaked
    /\ Cardinality(ActiveDayNumbers) = 3
    /\ MostRecent(ActiveDayNumbers) = DayNumber(analysis.today) - 1
    /\ analysis.current_streak = 2

\* C17: the longest streak is the length of the longest run of consecutive
\* dates among the distinct dates with a positive count (0 when there is
\* none), whatever the order of the pairs and however often a date occurs.
C17_LongestStreak ==
    Streaked => analysis.longest_streak = LongestRun(ActiveDayNumbers)

C17_Witness ==
    /\ Streaked
    /\ Len(analysis.contribution_days) = 3
    /\ analysis.contribution_days[1][1] = analysis.contribution_days[3][1]
    /\ DateStringLess(analysis.contribution_days[2][1], analysis.contribution_days[1][1])
    /\ analysis.contribution_days[3][2] = 0
    /\ analysis.longest_streak = 2

(***************************************************************************)
(* GitHubService.parse_contributions: the raw payload.  createdAt is       *)
(* absent, not an ISO timestamp, or the timestamp of a date; the block of  *)
(* a year (key y{YYYY}) is absent or carries the reported total of its     *)
(* calendar (NotGiven when the key is missing) and its daily pairs.        *)
(***************************************************************************)
\* years = list(range(current_year, current_year - 5, -1))
RequestedYearCount == 5

\* if mismatch_pct > 2
MismatchTolerancePct == 2

NotGiven == 0 - 1

\* None, for account_created_year
NoYear == 0

CreatedAtAbsent == [kind |-> "absent", date |-> <<0, 0, 0>>]

CreatedAtInvalid == [kind |-> "invalid", date |-> <<0, 0, 0>>]

CreatedAtOn(date) == [kind |-> "iso", date |-> date]

AbsentBlock == [present |-> FALSE, totalContributions |-> NotGiven, days |-> <<>>]

Block(totalContributions, days) ==
    [present |-> TRUE, totalContributions |-> totalContributions, days |-> days]

\* account_created_year: the year of createdAt, None when it is empty or
\* datetime.fromisoformat raises ValueError
AccountCreatedYear(createdAt) ==
    IF createdAt.kind = "iso" THEN createdAt.date[1] ELSE NoYear

\* [current_year, current_year - 1, ..., current_year - 4]
RequestedYears(current_year) ==
    [i \in 1..RequestedYearCount |-> current_year - (i - 1)]

\* now.timetuple().tm_yday
DayOfYear(now) == ToOrdinal(now) - ToOrdinal(<<now[1], 1, 1>>) + 1

\* calendar_sum = sum(c for _, c in yr_days)
RECURSIVE CalendarSum(_)
CalendarSum(yr_days) ==
    IF yr_days = <<>> THEN 0 ELSE Head(yr_days)[2] + CalendarSum(Tail(yr_days))

\* active_day_count = sum(1 for _, c in yr_days if c > 0)
ActiveDayCount(yr_days) == Cardinality({i \in DOMAIN yr_days : yr_days[i][2] > 0})

\* reported_total = calendar.get("totalContributions", calendar_sum)
ReportedTotal(year_data) ==
    IF year_data.totalContributions = NotGiven
    THEN CalendarSum(year_data.days)
    ELSE year_data.totalContributions

\* mismatch_pct = abs(calendar_sum - reported_total) / reported_total * 100
MismatchPct(calendar_sum, reported_total) ==
    FMul(FOfRatio(Abs(calendar_sum - reported_total), reported_total), FOfInt(100))

MutIsMismatch(calendar_sum, reported_total) ==
    /\ reported_total > 0
    /\ FGe(MismatchPct(calendar_sum, reported_total), FOfInt(MismatchTolerancePct))

\* reported_total > 0 and mismatch_pct > 2
IsMismatch(calendar_sum, reported_total) ==
    /\ reported_total > 0
    /\ FGt(MismatchPct(calendar_sum, reported_total), FOfInt(MismatchTolerancePct))

MutEffectiveTotal(calendar_sum, reported_total) ==
    IF reported_total > 0 /\ ~IsMismatch(calendar_sum, reported_total)
    THEN reported_total
    ELSE IF reported_total > 0 THEN calendar_sum ELSE reported_total

\* effective_total after the cross-verification
EffectiveTotal(calendar_sum, reported_total) ==
    IF reported_total > 0 /\ ~IsMismatch(calendar_sum, reported_total)
    THEN reported_total
    ELSE calendar_sum

\* max(x, 1) left out
MutFMaxOne(x) == x

\* max(x, 1) for a float x
FMaxOne(x) == IF FGt(FOfInt(1), x) THEN FOfInt(1) ELSE x

\* elapsed_weeks of year yr
ElapsedWeeks(yr, now) ==
    IF yr = now[1]
    THEN FMaxOne(FDiv(FOfInt(DayOfYear(now)), FOfInt(7)))
    ELSE FDiv(FOfInt(IF IsLeap(yr) THEN 366 ELSE 365), FOfInt(7))

\* per_week = round(effective_total / elapsed_weeks, 2), in hundredths
PerWeek(effective_total, yr, now) ==
    RoundScaled(FDiv(FOfInt(effective_total), ElapsedWeeks(yr, now)), 100)

\* the float of a value held in hundredths, as round(x, 2) returned it
Hundredths(n) == FOfRatio(n, 100)

\* YearlyMetrics; per_week is kept in hundredths
YearlyMetrics(year, total, per_week, active_days, is_partial, is_reliable, calendar_sum) ==
    [year |-> year, total |-> total, per_week |-> per_week, active_days |-> active_days,
     is_partial |-> is_partial, is_reliable |-> is_reliable, calendar_sum |-> calendar_sum]

\* the explicit zero-contribution year of an absent block
ZeroYear(yr, now) == YearlyMetrics(yr, 0, 0, 0, yr = now[1], TRUE, 0)

\* the YearlyMetrics of year yr from its block
YearMetrics(yr, year_data, now) ==
    LET calendar_sum == CalendarSum(year_data.days)
        reported_total == ReportedTotal(year_data)
        effective_total == EffectiveTotal(calendar_sum, reported_total)
    IN  YearlyMetrics(yr, effective_total, PerWeek(effective_total, yr, now),
                      ActiveDayCount(year_data.days), yr = now[1],
                      ~IsMismatch(calendar_sum, reported_total), calendar_sum)

MutSkipsYear(yr, year_data, account_created_year) ==
    ~year_data.present /\ account_created_year # NoYear /\ yr <= account_created_year

\* the year is left out: no block, and the year precedes the account creation
SkipsYear(yr, year_data, account_created_year) ==
    ~year_data.present /\ account_created_year # NoYear /\ yr < account_created_year

\* yearly_metrics.sort(key=lambda m: m.year)
RECURSIVE SortByYear(_)
SortByYear(metrics) ==
    IF metrics = <<>> THEN <<>>
    ELSE LET i == CHOOSE j \in DOMAIN metrics :
                      \A k \in DOMAIN metrics :
                          \/ metrics[j].year < metrics[k].year
                          \/ metrics[j].year = metrics[k].year /\ j <= k
         IN  <<metrics[i]>>
             \o SortByYear(SubSeq(metrics, 1, i - 1) \o SubSeq(metrics, i + 1, Len(metrics)))

(***************************************************************************)
(* parse_contributions: year-over-year growth, kept in tenths of a percent.*)
(***************************************************************************)
\* full_years = [m for m in yearly_metrics if not m.is_partial and m.total > 0]
ActiveFullYears(yearly_metrics) ==
    SelectSeq(yearly_metrics, LAMBDA m : ~m.is_partial /\ m.total > 0)

\* round(((curr - prev) / prev) * 100, 1), in tenths
GrowthPct(prev, curr) ==
    LET p == Hundredths(prev)
    IN  RoundScaled(FMul(FDiv(FSub(Hundredths(curr), p), p), FOfInt(100)), 10)

\* growth_rate
GrowthRate(yearly_metrics) ==
    LET full_years == ActiveFullYears(yearly_metrics)
    IN  IF Len(full_years) < 2 THEN 0
        ELSE IF full_years[Len(full_years) - 1].per_week <= 0 THEN 0
        ELSE GrowthPct(full_years[Len(full_years) - 1].per_week,
                       full_years[Len(full_years)].per_week)

\* is_trending_up = growth_rate > 0
IsTrendingUp(growth_rate) == growth_rate > 0

(***************************************************************************)
(* GitHubService._calculate_activity_overview: the trend signal.           *)
(***************************************************************************)
\* full_years = sorted([m for m in yearly_metrics if not m.is_partial], key=year)
FullYears(yearly_metrics) == SortByYear(SelectSeq(yearly_metrics, LAMBDA m : ~m.is_partial))

\* yoy_change of the two latest full years, a float
YoYChange(prev_pw, latest_pw) ==
    IF prev_pw > 0
    THEN LET p == Hundredths(prev_pw) IN FDiv(FSub(Hundredths(latest_pw), p), p)
    ELSE IF latest_pw > 0 THEN FOfInt(1) ELSE FZero

\* the float literals 0.25 and 0.05
StrongChange == FOfRatio(25, 100)

MildChange == FOfRatio(5, 100)

MutTrendSignal(yoy_change) ==
    IF FGe(yoy_change, StrongChange) THEN "strong_growth"
    ELSE IF FGt(yoy_change, MildChange) THEN "growth"
    ELSE IF FGe(yoy_change, FNeg(MildChange)) THEN "stable"
    ELSE IF FGe(yoy_change, FNeg(StrongChange)) THEN "decline"
    ELSE "strong_decline"

\* the if / elif chain over 0.25, 0.05, -0.05 and -0.25
TrendSignal(yoy_change) ==
    IF FGt(yoy_change, StrongChange) THEN "strong_growth"
    ELSE IF FGt(yoy_change, MildChange) THEN "growth"
    ELSE IF FGe(yoy_change, FNeg(MildChange)) THEN "stable"
    ELSE IF FGe(yoy_change, FNeg(StrongChange)) THEN "decline"
    ELSE "strong_decline"

\* ActivityOverview, its trend_signal
_calculate_activity_overview(yearly_metrics) ==
    LET full_years == FullYears(yearly_metrics)
    IN  IF full_years = <<>> THEN [trend_signal |-> "insufficient_data"]
        ELSE IF Len(full_years) < 2 THEN [trend_signal |-> TrendSignal(FZero)]
        ELSE [trend_signal |->
                 TrendSignal(YoYChange(full_years[Len(full_years) - 1].per_week,
                                       full_years[Len(full_years)].per_week))]

(***************************************************************************)
(* GitHubService._validate_contribution_data.                              *)
(***************************************************************************)
YearsOf(metrics) == [i \in DOMAIN metrics |-> metrics[i].year]

RECURSIVE SumTotals(_)
SumTotals(metrics) ==
    IF metrics = <<>> THEN 0 ELSE Head(metrics).total + SumTotals(Tail(metrics))

\* neighbours = the other full years with a positive total
Neighbours(yearly_metrics, m) ==
    SelectSeq(yearly_metrics, LAMBDA n : n.year # m.year /\ ~n.is_partial /\ n.total > 0)

\* neighbour_avg > 0 and m.total / neighbour_avg > 5
ExceedsNeighbours(total, neighbours) ==
    LET neighbour_avg == FOfRatio(SumTotals(neighbours), Len(neighbours))
    IN  FGt(neighbour_avg, FZero) /\ FGt(FDiv(FOfInt(total), neighbour_avg), FOfInt(5))

\* spike detection for year m
IsSpike(yearly_metrics, m) ==
    /\ m.total > 0
    /\ ~m.is_partial
    /\ LET neighbours == Neighbours(yearly_metrics, m)
       IN  neighbours # <<>> /\ ExceedsNeighbours(m.total, neighbours)

Anomaly(kind, year) == [kind |-> kind, year |-> year]

MutMismatchAnomalies(m) == <<>>

\* the mismatch anomaly of year m
MismatchAnomalies(m) == IF ~m.is_reliable THEN <<Anomaly("mismatch", m.year)>> ELSE <<>>

\* the anomalies the loop appends for the years from index i on
RECURSIVE YearAnomalies(_, _)
YearAnomalies(yearly_metrics, i) ==
    IF i > Len(yearly_metrics) THEN <<>>
    ELSE MismatchAnomalies(yearly_metrics[i])
         \o (IF IsSpike(yearly_metrics, yearly_metrics[i])
             THEN <<Anomaly("spike", yearly_metrics[i].year)>> ELSE <<>>)
         \o YearAnomalies(yearly_metrics, i + 1)

\* the new-account edge case
IsNewAccount(account_created_year, now_year) ==
    account_created_year # NoYear /\ now_year - account_created_year < 1

AllAnomalies(yearly_metrics, account_created_year, now_year) ==
    YearAnomalies(yearly_metrics, 1)
    \o (IF IsNewAccount(account_created_year, now_year)
        THEN <<Anomaly("new_account", now_year)>> ELSE <<>>)

\* ValidationResult; now_year is datetime.now(timezone.utc).year
_validate_contribution_data(yearly_metrics, account_created_year, now_year) ==
    LET anomalies == AllAnomalies(yearly_metrics, account_created_year, now_year)
        unreliable == YearsOf(SelectSeq(yearly_metrics, LAMBDA m : ~m.is_reliable))
    IN  [is_valid |-> Len(unreliable) = 0 /\ Len(anomalies) = 0,
         anomalies |-> anomalies,
         incomplete_years |-> YearsOf(SelectSeq(yearly_metrics, LAMBDA m : m.is_partial)),
         unreliable_years |-> unreliable]

\* ScoringEngine._activity_score_from_contributions: the validation penalty
ValidationPenalty(validation) ==
    IF ~validation.is_valid THEN Min(Len(validation.unreliable_years) * 3, 10) ELSE 0

(***************************************************************************)
(* parse_contributions, one year of its loop at a time; the step of the    *)
(* last year goes on to the end of the function.                           *)
(***************************************************************************)
NoContributionData ==
    [yearly_metrics |-> <<>>, total_contributions |-> 0,
     longest_streak |-> 0, current_streak |-> 0,
     growth_rate |-> 0, is_trending_up |-> FALSE,
     activity_overview |-> [trend_signal |-> "none"],
     validation |-> [is_valid |-> TRUE, anomalies |-> <<>>,
                     incomplete_years |-> <<>>, unreliable_years |-> <<>>]]

\* the ContributionData built after the loop from its yearly_metrics and all_days
ContributionData(yearly_metrics, all_days, account_created_year, now) ==
    LET sorted == SortByYear(yearly_metrics)
        streaks == _compute_streaks(all_days, now)
        growth_rate == GrowthRate(sorted)
    IN  [yearly_metrics |-> sorted,
         total_contributions |-> SumTotals(sorted),
         longest_streak |-> streaks[1],
         current_streak |-> streaks[2],
         growth_rate |-> growth_rate,
         is_trending_up |-> IsTrendingUp(growth_rate),
         activity_overview |-> _calculate_activity_overview(sorted),
         validation |-> _validate_contribution_data(sorted, account_created_year, now[1])]

\* parse_contributions(raw_data) at the time now, up to its loop
ParseStart(createdAt, now) ==
    /\ analysis.fn = "none"
    /\ analysis' = [fn |-> "parse_contributions", pc |-> "years", now |-> now,
                    createdAt |-> createdAt,
                    account_created_year |-> AccountCreatedYear(createdAt),
                    years |-> RequestedYears(now[1]), blocks |-> <<>>,
                    yearly_metrics |-> <<>>, all_days |-> <<>>,
                    result |-> NoContributionData]
    /\ UNCHANGED ServiceVars

\* the frame after the loop body for the next year, whose block is year_data
AfterYear(rec, year_data) ==
    [rec EXCEPT
        !.years = Tail(@),
        !.blocks = Append(@, year_data),
        !.yearly_metrics =
            IF year_data.present
            THEN Append(@, YearMetrics(Head(rec.years), year_data, rec.now))
            ELSE IF SkipsYear(Head(rec.years), year_data, rec.account_created_year)
            THEN @
            ELSE Append(@, ZeroYear(Head(rec.years), rec.now)),
        !.all_days = @ \o year_data.days]

\* one iteration of for yr in years; after the last one, the rest of the function
ParseYear(year_data) ==
    /\ analysis.fn = "parse_contributions"
    /\ analysis.pc = "years"
    /\ LET rec == AfterYear(analysis, year_data)
       IN  analysis' =
               IF rec.years # <<>> THEN rec
               ELSE [rec EXCEPT
                        !.pc = "done",
                        !.result = ContributionData(rec.yearly_metrics, rec.all_days,
                                                    rec.account_created_year, rec.now)]
    /\ UNCHANGED ServiceVars

\* the year whose block the loop reads next
NextYear ==
    IF analysis.fn = "parse_contributions" /\ analysis.pc = "years"
    THEN Head(analysis.years) ELSE NoYear

(***************************************************************************)
(* SpecVerify: parse_contributions on the payloads that carry a block for  *)
(* one year, over the reported totals and calendars around the tolerance.  *)
(***************************************************************************)
\* the most days of the calendar of one block
MaxCalendarDays == 2

ParseNow == <<2026, 1, 2>>

VerifyReportedTotals == {NotGiven, 0, 50, 100}

VerifyCounts == {0, 47, 49, 50, 51}

\* the calendars of year yr: its first days, each with one of the counts
Calendars(yr) ==
    UNION {[1..n -> VerifyCounts] : n \in 0..MaxCalendarDays}

CalendarDays(yr, counts) == [i \in DOMAIN counts |-> <<<<yr, 1, i>>, counts[i]>>]

VerifyBlocks(yr) ==
    {Block(r, CalendarDays(yr, counts)) : r \in VerifyReportedTotals, counts \in Calendars(yr)}

\* a block has been read
HasBlock == \E i \in DOMAIN analysis.blocks : analysis.blocks[i].present

NextVerify ==
    \/ ParseStart(CreatedAtAbsent, ParseNow)
    \/ \E year_data \in {AbsentBlock} \cup VerifyBlocks(NextYear) :
           /\ NextYear # NoYear
           /\ year_data.present => ~HasBlock
           /\ ParseYear(year_data)

SpecVerify == InitAnalysis /\ [][NextVerify]_vars

(***************************************************************************)
(* Properties of the yearly metrics that parse_contributions builds.       *)
(***************************************************************************)
Parsing == analysis.fn = "parse_contributions"

ParseDone == Parsing /\ analysis.pc = "done"

\* the blocks read so far, each with the year it was read for
BlocksRead ==
    IF Parsing
    THEN {[year |-> RequestedYears(analysis.now[1])[i], block |-> analysis.blocks[i]] :
              i \in DOMAIN analysis.blocks}
    ELSE {}

\* the YearlyMetrics produced so far for the year yr
MetricsOf(yr) ==
    IF Parsing
    THEN {analysis.yearly_metrics[i] :
              i \in {j \in DOMAIN analysis.yearly_metrics : analysis.yearly_metrics[j].year = yr}}
    ELSE {}

RECURSIVE DailySum(_)
DailySum(days) == IF days = <<>> THEN 0 ELSE Head(days)[2] + DailySum(Tail(days))

MaxAccountAge == 1

CreatedAts ==
    {CreatedAtAbsent, CreatedAtInvalid, CreatedAtOn(<<ParseNow[1] - 1, 12, 31>>)}
    \cup {CreatedAtOn(<<ParseNow[1] - age, 1, 1>>) : age \in 0..MaxAccountAge}

\* a calendar of year yr with count on its first day
OneDay(yr, count) == <<<<<<yr, 1, 1>>, count>>>>

ParseBlocks(yr) ==
    {Block(NotGiven, <<>>), Block(0, OneDay(yr, 5)), Block(100, OneDay(yr, 97))}

NextParse ==
    \/ \E createdAt \in CreatedAts : ParseStart(createdAt, ParseNow)
    \/ \E year_data \in {AbsentBlock} \cup ParseBlocks(NextYear) :
           /\ NextYear # NoYear
           /\ ParseYear(year_data)

SpecParse == InitAnalysis /\ [][NextParse]_vars

CreationYear == IF analysis.createdAt.kind = "iso" THEN analysis.createdAt.date[1] ELSE NoYear

\* C13: the result holds exactly one YearlyMetrics for each of the 5
\* requested years that is not before the account-creation year, and none
\* for a requested year before it, with or without a block for that year.
C13_OnePerYearSinceCreation ==
    ParseDone =>
        \A yr \in (analysis.now[1] - 4)..analysis.now[1] :
            IF CreationYear # NoYear /\ yr < CreationYear
            THEN MetricsOf(yr) = {}
            ELSE Cardinality(MetricsOf(yr)) = 1

\* C14: a requested year without a block yields no YearlyMetrics when it
\* precedes the account-creation year, and otherwise (createdAt missing or
\* unparseable included) one with total 0, reliable, partial iff it is the
\* current year.
C14_AbsentBlock ==
    \A b \in BlocksRead :
        ~b.block.present =>
            IF CreationYear # NoYear /\ b.year < CreationYear
            THEN MetricsOf(b.year) = {}
            ELSE /\ Cardinality(MetricsOf(b.year)) = 1
                 /\ \A m \in MetricsOf(b.year) :
                        /\ m.total = 0
                        /\ m.is_reliable
                        /\ m.is_partial = (b.year = analysis.now[1])

\* an account of last year without any block: the three years before it are
\* left out, last year and the current one are zero years
C14_Witness ==
    /\ ParseDone
    /\ CreationYear = analysis.now[1] - 1
    /\ \A b \in BlocksRead : ~b.block.present
    /\ YearsOf(analysis.result.yearly_metrics) = <<analysis.now[1] - 1, analysis.now[1]>>

\* the non-partial years of the result, oldest first
ResultFullYears == SelectSeq(analysis.result.yearly_metrics, LAMBDA m : ~m.is_partial)

\* C18: growth_rate is (latest - previous) / previous * 100 over the per_week
\* of the two most recent non-partial years when there are two and previous
\* is positive, and 0 otherwise; is_trending_up iff growth_rate > 0.
C18_GrowthOfLatestFullYears ==
    ParseDone =>
        /\ analysis.result.growth_rate =
               IF Len(ResultFullYears) >= 2
                  /\ ResultFullYears[Len(ResultFullYears) - 1].per_week > 0
               THEN GrowthPct(ResultFullYears[Len(ResultFullYears) - 1].per_week,
                              ResultFullYears[Len(ResultFullYears)].per_week)
               ELSE 0
        /\ analysis.result.is_trending_up = (analysis.result.growth_rate > 0)

\* the number of mismatch anomalies of the result for the year yr
MismatchAnomalyCount(yr) ==
    Cardinality({i \in DOMAIN analysis.result.validation.anomalies :
                     analysis.result.validation.anomalies[i] = Anomaly("mismatch", yr)})

\* C20: the validator's incomplete_years are exactly the years with
\* is_partial, its unreliable_years exactly the years with is_reliable false,
\* each unreliable year has one mismatch anomaly and no other year has one,
\* and is_valid iff unreliable_years and anomalies are both empty.
C20_ValidationResult ==
    ParseDone =>
        LET yearly_metrics == analysis.result.yearly_metrics
            validation == analysis.result.validation
            Years(flagged(_)) ==
                {yearly_metrics[i].year :
                     i \in {j \in DOMAIN yearly_metrics : flagged(yearly_metrics[j])}}
            Elements(seq) == {seq[i] : i \in DOMAIN seq}
        IN  /\ Elements(validation.incomplete_years) = Years(LAMBDA m : m.is_partial)
            /\ Len(validation.incomplete_years)
                   = Cardinality(Elements(validation.incomplete_years))
            /\ Elements(validation.unreliable_years) = Years(LAMBDA m : ~m.is_reliable)
            /\ Len(validation.unreliable_years)
                   = Cardinality(Elements(validation.unreliable_years))
            /\ \A i \in DOMAIN yearly_metrics :
                   MismatchAnomalyCount(yearly_metrics[i].year)
                       = IF yearly_metrics[i].is_reliable THEN 0 ELSE 1
            /\ validation.is_valid
                   = (validation.unreliable_years = <<>> /\ validation.anomalies = <<>>)

\* two unreliable years beside the partial current year: both are listed,
\* each with its mismatch anomaly, and the result is not valid
C20_Witness ==
    /\ ParseDone
    /\ Len(analysis.result.validation.unreliable_years) = 2
    /\ \A i \in DOMAIN analysis.result.validation.unreliable_years :
           MismatchAnomalyCount(analysis.result.validation.unreliable_years[i]) = 1
    /\ analysis.result.validation.incomplete_years = <<analysis.now[1]>>
    /\ ~analysis.result.validation.is_valid

(***************************************************************************)
(* SpecOverview: _calculate_activity_overview on the metrics of up to      *)
(* MaxFullYears completed years, with or without the current year.         *)
(***************************************************************************)
\* the most completed years of a list of metrics
MaxFullYears == 2

\* the time of the analysis: the two years before it have 365 days
OverviewNow == <<2027, 1, 2>>

\* yearly totals whose per_week values meet and pass the thresholds
OverviewTotals == {0, 4, 5, 20, 21, 52, 65}

\* the metrics of the last Len(totals) completed years, oldest first, and of
\* the current year when with_current
MetricsOfTotals(totals, with_current) ==
    [i \in DOMAIN totals |->
        YearMetrics(OverviewNow[1] - Len(totals) + i - 1,
                    Block(NotGiven, OneDay(OverviewNow[1] - Len(totals) + i - 1, totals[i])),
                    OverviewNow)]
    \o (IF with_current THEN <<ZeroYear(OverviewNow[1], OverviewNow)>> ELSE <<>>)

\* _calculate_activity_overview(yearly_metrics)
CalculateActivityOverview(yearly_metrics) ==
    /\ analysis.fn = "none"
    /\ analysis' = [fn |-> "_calculate_activity_overview", pc |-> "done",
                    yearly_metrics |-> yearly_metrics,
                    result |-> _calculate_activity_overview(yearly_metrics)]
    /\ UNCHANGED ServiceVars

NextOverview ==
    /\ analysis.fn = "none"
    /\ \E n \in 0..MaxFullYears, with_current \in BOOLEAN :
           \E totals \in [1..n -> OverviewTotals] :
               CalculateActivityOverview(MetricsOfTotals(totals, with_current))

SpecOverview == InitAnalysis /\ [][NextOverview]_vars

OverviewDone == analysis.fn = "_calculate_activity_overview"

\* the non-partial years the overview was computed from, oldest first
OverviewFullYears ==
    IF OverviewDone THEN SelectSeq(analysis.yearly_metrics, LAMBDA m : ~m.is_partial)
    ELSE <<>>

\* yoy as the claim defines it, a float
ClaimedYoY ==
    LET full == OverviewFullYears
    IN  IF Len(full) < 2 THEN FZero
        ELSE LET previous == full[Len(full) - 1].per_week
                 latest == full[Len(full)].per_week
             IN  IF previous > 0
                 THEN FDiv(FSub(Hundredths(latest), Hundredths(previous)),
                           Hundredths(previous))
                 ELSE IF latest > 0 THEN FOfInt(1) ELSE FZero

\* the five signals against the thresholds on yoy
SignalMatchesYoY(signal, yoy) ==
    /\ signal = "strong_growth" <=> FGt(yoy, FOfRatio(25, 100))
    /\ signal = "growth" <=> FGt(yoy, FOfRatio(5, 100)) /\ ~FGt(yoy, FOfRatio(25, 100))
    /\ signal = "stable" <=> FGe(yoy, FOfRatio(-5, 100)) /\ ~FGt(yoy, FOfRatio(5, 100))
    /\ signal = "decline" <=> FGe(yoy, FOfRatio(-25, 100)) /\ ~FGe(yoy, FOfRatio(-5, 100))
    /\ signal = "strong_decline" <=> ~FGe(yoy, FOfRatio(-25, 100))

\* C19 as stated: for every list of metrics, fewer than two full years
\* taken as yoy = 0, trend_signal is strong_growth iff yoy > 0.25, growth iff
\* 0.05 < yoy <= 0.25, stable iff -0.05 <= yoy <= 0.05, decline iff
\* -0.25 <= yoy < -0.05 and strong_decline iff yoy < -0.25.
C19_TrendSignalOfYoY ==
    OverviewDone => SignalMatchesYoY(analysis.result.trend_signal, ClaimedYoY)

\* C19, amended: the thresholds on yoy decide trend_signal when there is at
\* least one full year; without a full year trend_signal is insufficient_data.
C19_TrendSignalOfFullYears ==
    OverviewDone =>
        IF OverviewFullYears = <<>>
        THEN analysis.result.trend_signal = "insufficient_data"
        ELSE SignalMatchesYoY(analysis.result.trend_signal, ClaimedYoY)

\* per_week 1.00 then 1.25: yoy is 0.25 and the signal is growth
C19_Witness ==
    /\ Len(OverviewFullYears) = 2
    /\ OverviewFullYears[1].per_week = 100
    /\ OverviewFullYears[2].per_week = 125
    /\ FCmp(ClaimedYoY, FOfRatio(25, 100)) = 0
    /\ analysis.result.trend_signal = "growth"

\* whole days from the account-creation date to now
AccountAgeDays == ToOrdinal(analysis.now) - ToOrdinal(analysis.createdAt.date)

HasLimitedHistoryAnomaly ==
    \E i \in DOMAIN analysis.result.validation.anomalies :
        analysis.result.validation.anomalies[i].kind = "new_account"

\* C21: the validator appends the limited-history anomaly, and is_valid is
\* false, exactly when fewer than 365 days separate the account creation
\* from now, accounts created late in the previous calendar year included.
C21_LimitedHistory ==
    (ParseDone /\ analysis.createdAt.kind = "iso") =>
        /\ HasLimitedHistoryAnomaly <=> AccountAgeDays < 365
        /\ AccountAgeDays < 365 => ~analysis.result.validation.is_valid

(***************************************************************************)
(* ScoringEngine._activity_score_from_contributions.  The floats of a      *)
(* ContributionData are held as the integers they were rounded to:         *)
(* per_week and weekly_average in hundredths, volatility_score in          *)
(* thousandths; the scores the scorer rounds to one decimal are in tenths. *)
(***************************************************************************)
\* settings.WEIGHT_ACTIVITY
WEIGHT_ACTIVITY == 25

\* None, for activity_overview and validation
NoOverview == [none |-> "activity_overview"]

NoValidation == [none |-> "validation"]

Thousandths(n) == FOfRatio(n, 1000)

FMin(a, b) == IF FCmp(a, b) <= 0 THEN a ELSE b

FMax(a, b) == IF FCmp(a, b) >= 0 THEN a ELSE b

\* min(x / benchmark * points, points)
CappedPoints(x, benchmark, points) ==
    FMin(FMul(FDiv(x, FOfInt(benchmark)), FOfInt(points)), FOfInt(points))

\* full_years = [m for m in cd.yearly_metrics if not m.is_partial]
ScorerFullYears(cd) == SelectSeq(cd.yearly_metrics, LAMBDA m : ~m.is_partial)

\* per_week of latest_full, or weekly_average when there is no full year
EffortRate(cd, full_years) ==
    IF full_years # <<>> THEN full_years[Len(full_years)].per_week ELSE cd.weekly_average

\* 1. sustained weekly effort
EffortScore(cd) == CappedPoints(Hundredths(EffortRate(cd, ScorerFullYears(cd))), 10, 30)

\* volatility_pts = max(10 * (1 - min(vol, 1.0)), 0), 0.0 without an overview
VolatilityPts(activity_overview) ==
    IF activity_overview = NoOverview THEN FZero
    ELSE FMax(FMul(FOfInt(10),
                   FSub(FOfInt(1), FMin(Thousandths(activity_overview.volatility_score),
                                        FOfInt(1)))),
              FZero)

\* 2. stability_score = streak_pts + current_bonus + volatility_pts
StabilityScore(cd) ==
    FAdd(FAdd(CappedPoints(FOfInt(cd.longest_streak), 30, 12),
              CappedPoints(FOfInt(cd.current_streak), 14, 3)),
         VolatilityPts(cd.activity_overview))

\* trend_map, in tenths; trend_map.get(sig, 7.5)
TrendMap(sig) ==
    CASE sig = "strong_growth" -> 150
      [] sig = "growth" -> 120
      [] sig = "stable" -> 90
      [] sig = "decline" -> 50
      [] sig = "strong_decline" -> 20
      [] sig = "insufficient_data" -> 75
      [] OTHER -> 75

\* trend_pts: 7.5 without an overview
TrendPts(activity_overview) ==
    IF activity_overview = NoOverview THEN 75 ELSE TrendMap(activity_overview.trend_signal)

\* 3. momentum_score = recency_vol + trend_pts
MomentumScore(cd) ==
    FAdd(CappedPoints(FOfInt(cd.last_12_months_contributions), 400, 10),
         FOfRatio(TrendPts(cd.activity_overview), 10))

\* bd.get(key, 0)
BreakdownGet(bd, key) == IF key \in DOMAIN bd THEN bd[key] ELSE 0

\* 4. div_score, summed in the order of the code
DiversityScore(cd) ==
    FAdd(FAdd(FAdd(FAdd(FZero,
        CappedPoints(FOfInt(BreakdownGet(cd.contribution_breakdown, "commits")), 200, 8)),
        CappedPoints(FOfInt(BreakdownGet(cd.contribution_breakdown, "pull_requests")), 20, 5)),
        CappedPoints(FOfInt(BreakdownGet(cd.contribution_breakdown, "reviews")), 10, 4)),
        CappedPoints(FOfInt(BreakdownGet(cd.contribution_breakdown, "issues")), 10, 3))

\* if cd.validation and not cd.validation.is_valid
HasPenalty(validation) == validation # NoValidation /\ ~validation.is_valid

\* score = score - penalty, without the max
MutPenalised(score, validation) ==
    IF HasPenalty(validation)
    THEN FSub(score, FOfInt(ValidationPenalty(validation)))
    ELSE score

\* score = max(score - penalty, 0) when the validation is not valid
Penalised(score, validation) ==
    IF HasPenalty(validation)
    THEN FMax(FSub(score, FOfInt(ValidationPenalty(validation))), FZero)
    ELSE score

\* return ScoreComponent(...): score, weighted_score and the rounded factor
\* scores of details, from the locals of the call
ScoreComponent(frame, weight) ==
    [score |-> RoundScaled(FMin(frame.score, FOfInt(100)), 10),
     weight |-> weight,
     weighted_score |->
         RoundScaled(FDiv(FMul(FMin(frame.score, FOfInt(100)), FOfInt(weight)),
                          FOfInt(100)), 10),
     details |->
         [sustained_effort |-> RoundScaled(frame.effort_score, 10),
          stability_consistency |-> RoundScaled(frame.stability_score, 10),
          recency_momentum |-> RoundScaled(frame.momentum_score, 10),
          contribution_diversity |-> RoundScaled(frame.div_score, 10),
          validation_penalty |->
              IF HasPenalty(frame.cd.validation) THEN ValidationPenalty(frame.cd.validation)
              ELSE NotGiven]]

(***************************************************************************)
(* SpecScore: one ScoringEngine scoring ContributionData objects: the one  *)
(* the behaviour chose, and one other, in any order.                       *)
(***************************************************************************)
\* the most scorer calls of one behaviour
MaxScorerCalls == 2

\* a full year of the given per_week, in hundredths
FullYear(yr, per_week) == YearlyMetrics(yr, 0, per_week, 0, FALSE, TRUE, 0)

\* yearly_metrics, weekly_average, longest_streak and current_streak: no year
\* at all, a partial year only, and latest full years below and above the
\* benchmark of 10 per week, with streaks below and above theirs
EffortInputs ==
    {[yearly_metrics |-> <<>>, weekly_average |-> 0, streaks |-> <<0, 0>>],
     [yearly_metrics |-> <<ZeroYear(2026, <<2026, 1, 2>>)>>, weekly_average |-> 1200,
      streaks |-> <<17, 5>>],
     [yearly_metrics |-> <<FullYear(2025, 537), ZeroYear(2026, <<2026, 1, 2>>)>>,
      weekly_average |-> 0, streaks |-> <<400, 0>>],
     [yearly_metrics |-> <<FullYear(2025, 0)>>, weekly_average |-> 1200,
      streaks |-> <<0, 0>>],
     [yearly_metrics |-> <<FullYear(2024, 100), FullYear(2025, 2500)>>,
      weekly_average |-> 50, streaks |-> <<400, 400>>]}

Overview(trend_signal, volatility_score) ==
    [trend_signal |-> trend_signal, volatility_score |-> volatility_score]

OverviewInputs ==
    {NoOverview, Overview("strong_growth", 0), Overview("growth", 333),
     Overview("stable", 0), Overview("decline", 2300), Overview("strong_decline", 1000),
     Overview("insufficient_data", 0)}

Breakdown(commits, pull_requests, reviews, issues) ==
    [commits |-> commits, pull_requests |-> pull_requests, reviews |-> reviews,
     issues |-> issues]

\* last_12_months_contributions and contribution_breakdown: nothing in a
\* dict without the four keys the scorer reads, and counts below and above
\* the benchmarks
VolumeInputs ==
    {<<0, [repositories |-> 3]>>, <<123, Breakdown(77, 3, 1, 7)>>,
     <<5000, Breakdown(1000, 100, 50, 50)>>}

Validation(is_valid, anomalies, unreliable_years) ==
    [is_valid |-> is_valid, anomalies |-> anomalies, incomplete_years |-> <<>>,
     unreliable_years |-> unreliable_years]

ValidationInputs ==
    {NoValidation,
     Validation(TRUE, <<>>, <<>>),
     Validation(FALSE, <<Anomaly("mismatch", 2025)>>, <<2025>>),
     Validation(FALSE, [i \in 1..5 |-> Anomaly("mismatch", 2020 + i)],
                [i \in 1..5 |-> 2020 + i])}

ScoreData(effort, activity_overview, volume, validation) ==
    [yearly_metrics |-> effort.yearly_metrics,
     weekly_average |-> effort.weekly_average,
     longest_streak |-> effort.streaks[1],
     current_streak |-> effort.streaks[2],
     activity_overview |-> activity_overview,
     last_12_months_contributions |-> volume[1],
     contribution_breakdown |-> volume[2],
     validation |-> validation]

ScoreInputs ==
    {ScoreData(effort, activity_overview, volume, validation) :
        effort \in EffortInputs, activity_overview \in OverviewInputs,
        volume \in VolumeInputs, validation \in ValidationInputs}

\* the ContributionData of another analysis
OtherData ==
    ScoreData([yearly_metrics |-> <<FullYear(2025, 250)>>, weekly_average |-> 0,
               streaks |-> <<3, 1>>],
              Overview("stable", 0), <<40, Breakdown(10, 1, 0, 0)>>,
              Validation(TRUE, <<>>, <<>>))

\* the locals of no call
NoFrame == [pc |-> "idle"]

\* ScoringEngine(), and the two ContributionData objects it will be given
ScoringEngine(cd) ==
    /\ analysis.fn = "none"
    /\ analysis' = [fn |-> "ScoringEngine", pc |-> "ready",
                    weights |-> [activity |-> WEIGHT_ACTIVITY],
                    cd |-> cd, other |-> OtherData, frame |-> NoFrame, calls |-> <<>>]
    /\ UNCHANGED ServiceVars

ScorerAt(pc) == analysis.fn = "ScoringEngine" /\ analysis.frame.pc = pc

\* a running score kept from the call before
MutInitialScore(frame) == IF frame.pc = "returned" THEN frame.score ELSE FZero

\* score = 0.0: the running score is a local of the call
InitialScore(frame) == FZero

\* self._activity_score_from_contributions(cd, profile) on one of the two
\* objects, up to the end of 1. sustained weekly effort
ScorerCall(own) ==
    /\ analysis.fn = "ScoringEngine"
    /\ analysis.frame.pc \in {"idle", "returned"}
    /\ Len(analysis.calls) < MaxScorerCalls
    /\ analysis' =
           [analysis EXCEPT !.frame =
               [pc |-> "stability", own |-> own,
                cd |-> IF own THEN analysis.cd ELSE analysis.other,
                effort_score |-> EffortScore(IF own THEN analysis.cd ELSE analysis.other),
                score |-> FAdd(InitialScore(analysis.frame),
                               EffortScore(IF own THEN analysis.cd ELSE analysis.other))]]
    /\ UNCHANGED ServiceVars

\* 2. stability and consistency
ScorerStability ==
    /\ ScorerAt("stability")
    /\ analysis' =
           [analysis EXCEPT !.frame =
               [pc |-> "momentum", own |-> @.own, cd |-> @.cd,
                effort_score |-> @.effort_score,
                stability_score |-> StabilityScore(@.cd),
                score |-> FAdd(@.score, StabilityScore(@.cd))]]
    /\ UNCHANGED ServiceVars

\* 3. recency and momentum
ScorerMomentum ==
    /\ ScorerAt("momentum")
    /\ analysis' =
           [analysis EXCEPT !.frame =
               [pc |-> "diversity", own |-> @.own, cd |-> @.cd,
                effort_score |-> @.effort_score, stability_score |-> @.stability_score,
                momentum_score |-> MomentumScore(@.cd),
                score |-> FAdd(@.score, MomentumScore(@.cd))]]
    /\ UNCHANGED ServiceVars

\* 4. contribution diversity
ScorerDiversity ==
    /\ ScorerAt("diversity")
    /\ analysis' =
           [analysis EXCEPT !.frame =
               [pc |-> "penalty", own |-> @.own, cd |-> @.cd,
                effort_score |-> @.effort_score, stability_score |-> @.stability_score,
                momentum_score |-> @.momentum_score,
                div_score |-> DiversityScore(@.cd),
                score |-> FAdd(@.score, DiversityScore(@.cd))]]
    /\ UNCHANGED ServiceVars

\* the validation penalty and the return; a returned call is recorded with
\* the ContributionData it was given and the object as it is at the return
ScorerReturn ==
    /\ ScorerAt("penalty")
    /\ analysis' =
           [analysis EXCEPT
               !.frame = [@ EXCEPT !.pc = "returned",
                                   !.score = Penalised(@, analysis.frame.cd.validation)],
               !.calls =
                   Append(@, [own |-> analysis.frame.own,
                              cd |-> analysis.frame.cd,
                              after |-> IF analysis.frame.own THEN analysis.cd
                                        ELSE analysis.other,
                              returned |->
                                  ScoreComponent(
                                      [analysis.frame EXCEPT
                                          !.score = Penalised(@, analysis.frame.cd.validation)],
                                      analysis.weights.activity)])]
    /\ UNCHANGED ServiceVars

NextScore ==
    \/ \E cd \in ScoreInputs : ScoringEngine(cd)
    \/ \E own \in BOOLEAN : ScorerCall(own)
    \/ ScorerStability
    \/ ScorerMomentum
    \/ ScorerDiversity
    \/ ScorerReturn

SpecScore == InitAnalysis /\ [][NextScore]_vars

\* the scorer calls that have returned
ScorerCalls == IF analysis.fn = "ScoringEngine" THEN analysis.calls ELSE <<>>

\* the locals of the scorer call that returned last
ScorerReturned == ScorerAt("returned")

AtMost(x, points) == FCmp(x, FOfInt(points)) <= 0

\* C22: the score of every call lies in [0, 100], and the four factors are
\* at most 30, 25, 25 and 20, as computed and as rounded in details; the
\* score after the validation penalty is not below 0.
C22_ScoreBounds ==
    /\ \A i \in DOMAIN ScorerCalls :
           /\ ScorerCalls[i].returned.score \in 0..1000
           /\ ScorerCalls[i].returned.details.sustained_effort \in 0..300
           /\ ScorerCalls[i].returned.details.stability_consistency \in 0..250
           /\ ScorerCalls[i].returned.details.recency_momentum \in 0..250
           /\ ScorerCalls[i].returned.details.contribution_diversity \in 0..200
    /\ ScorerReturned =>
           /\ AtMost(analysis.frame.effort_score, 30)
           /\ AtMost(analysis.frame.stability_score, 25)
           /\ AtMost(analysis.frame.momentum_score, 25)
           /\ AtMost(analysis.frame.div_score, 20)
           /\ FGe(analysis.frame.score, FZero)
           /\ AtMost(analysis.frame.score, 100)

\* five unreliable years on factors that sum to 2.0: the penalty of 10 is
\* larger than the sum, and the score is 0
C22_Witness ==
    /\ ScorerReturned
    /\ analysis.frame.own
    /\ analysis.calls[Len(analysis.calls)].returned.details.validation_penalty = 10
    /\ analysis.calls[Len(analysis.calls)].returned.details.recency_momentum = 20
    /\ analysis.calls[Len(analysis.calls)].returned.details.sustained_effort = 0
    /\ analysis.calls[Len(analysis.calls)].returned.details.stability_consistency = 0
    /\ analysis.calls[Len(analysis.calls)].returned.details.contribution_diversity = 0
    /\ analysis.calls[Len(analysis.calls)].returned.score = 0

\* the table of the claim
ClaimedTrendPoints(sig) ==
    CASE sig = "strong_growth" -> 15
      [] sig = "growth" -> 12
      [] sig = "stable" -> 9
      [] sig = "decline" -> 5
      [] sig = "strong_decline" -> 2
      [] sig = "insufficient_data" -> 9

\* C23: for a ContributionData with an activity overview, the recency and
\* momentum factor is the trailing-12-month points plus the points of the
\* trend signal: strong_growth 15, growth 12, stable 9, decline 5,
\* strong_decline 2, insufficient_data 9.
C23_TrendPointsTable ==
    (ScorerReturned /\ analysis.frame.cd.activity_overview # NoOverview) =>
        FCmp(analysis.frame.momentum_score,
             FAdd(CappedPoints(FOfInt(analysis.frame.cd.last_12_months_contributions),
                               400, 10),
                  FOfInt(ClaimedTrendPoints(analysis.frame.cd.activity_overview.trend_signal))))
            = 0

ElapsedMonths(yr, now) ==
    IF yr = now[1]
    THEN FMaxOne(FDiv(FOfInt(DayOfYear(now)), FOfRatio(3044, 100)))
    ELSE FOfInt(12)

\* per_month = round(effective_total / elapsed_months, 2), in hundredths
PerMonth(effective_total, yr, now) ==
    RoundScaled(FDiv(FOfInt(effective_total), ElapsedMonths(yr, now)), 100)

\* the effective totals of the current year
RateTotals == {0, 1, 777}

\* the first days of the years the clock runs through
RateYearStarts == {<<2028, 1, 1>>}

\* the day after ds
NextDate(ds) ==
    IF ds[3] < DaysInMonth(ds[1], ds[2]) THEN <<ds[1], ds[2], ds[3] + 1>>
    ELSE IF ds[2] < 12 THEN <<ds[1], ds[2] + 1, 1>>
    ELSE <<ds[1] + 1, 1, 1>>

\* the elapsed time of no earlier day
NoElapsed == [none |-> "elapsed"]

\* the rates of the current year now[1] at the time now; before is the
\* elapsed time that was computed the day before
NormalisedRates(effective_total, now, before) ==
    [fn |-> "normalised_rates", pc |-> "done", now |-> now,
     effective_total |-> effective_total,
     is_partial |-> TRUE,
     day_of_year |-> DayOfYear(now),
     elapsed_months |-> ElapsedMonths(now[1], now),
     elapsed_weeks |-> ElapsedWeeks(now[1], now),
     per_month |-> PerMonth(effective_total, now[1], now),
     per_week |-> PerWeek(effective_total, now[1], now),
     before |-> before]

\* the rates on the first day of the year
RatesOnNewYear(effective_total, now) ==
    /\ analysis.fn = "none"
    /\ analysis' = NormalisedRates(effective_total, now, NoElapsed)
    /\ UNCHANGED ServiceVars

\* the rates of the same total a day later in the same year
RatesOnNextDay ==
    /\ analysis.fn = "normalised_rates"
    /\ NextDate(analysis.now)[1] = analysis.now[1]
    /\ analysis' = NormalisedRates(analysis.effective_total, NextDate(analysis.now),
                                   [elapsed_months |-> analysis.elapsed_months,
                                    elapsed_weeks |-> analysis.elapsed_weeks])
    /\ UNCHANGED ServiceVars

NextRates ==
    \/ \E effective_total \in RateTotals, now \in RateYearStarts :
           RatesOnNewYear(effective_total, now)
    \/ RatesOnNextDay

SpecRates == InitAnalysis /\ [][NextRates]_vars

RatesDone == analysis.fn = "normalised_rates"

\* C25: on every day 1..366 of the current year the elapsed months and the
\* elapsed weeks are at least 1 and not below those of the day before, and
\* per_month and per_week do not exceed the effective total.
C25_ElapsedTime ==
    RatesDone =>
        /\ analysis.day_of_year \in 1..366
        /\ FGe(analysis.elapsed_months, FOfInt(1))
        /\ FGe(analysis.elapsed_weeks, FOfInt(1))
        /\ analysis.before # NoElapsed =>
               /\ FGe(analysis.elapsed_months, analysis.before.elapsed_months)
               /\ FGe(analysis.elapsed_weeks, analysis.before.elapsed_weeks)
        /\ analysis.per_month <= 100 * analysis.effective_total
        /\ analysis.per_week <= 100 * analysis.effective_total
        /\ analysis.per_month >= 0 /\ analysis.per_week >= 0

\* day 8: the first day with more than one elapsed week, still within the
\* first elapsed month, so that per_month is the total and per_week is less
C25_Witness ==
    /\ RatesDone
    /\ analysis.day_of_year = 8
    /\ analysis.effective_total = 777
    /\ FCmp(analysis.before.elapsed_weeks, FOfInt(1)) = 0
    /\ FGt(analysis.elapsed_weeks, FOfInt(1))
    /\ FCmp(analysis.elapsed_months, FOfInt(1)) = 0
    /\ analysis.per_month = 77700
    /\ analysis.per_week = 67988

(***************************************************************************)
(* SpecExecLive: SpecExec with the scheduling of the event loop: a free    *)
(* permit is handed out, a POST ends with an answer or an exception within *)
(* its timeout of 20 s, and asyncio.sleep returns after its finite wait.   *)
(***************************************************************************)
ExecFairness ==
    /\ WF_vars(Acquire(TheCall))
    /\ WF_vars(\E r \in AllResponses : Respond(TheCall, r))
    /\ WF_vars(Wake(TheCall))

SpecExecLive == Init /\ [][NextExec]_vars /\ ExecFairness

\* the call has entered _graphql_query and not left it
ExecRunning == call[TheCall].pc # "idle"

\* the call has left _graphql_query
ExecEnded == call[TheCall].pc = "idle" /\ returned.pc = "done"

\* the call returned the data of its last answer, a 2xx without errors
ReturnedData(k) ==
    /\ k.raised = NoExc
    /\ k.hist # <<>>
    /\ Last(k.hist) \in OkResponses
    /\ ~HasGraphQLErrors(Last(k.hist))
    /\ k.data = Last(k.hist).body

\* C26: whatever the remote answers, a _graphql_query call issues at most 3
\* POSTs and then ends: it returns the data of a successful answer or raises.
C26_Terminates ==
    /\ [](\A k \in Frames :
              /\ k.posts <= 3
              /\ Len(k.hist) <= k.posts
              /\ (k.pc = "done" /\ k.kind = "execute") =>
                     \/ ReturnedData(k)
                     \/ k.raised # NoExc /\ k.data = Null)
    /\ ExecRunning ~> ExecEnded

\* a rate-limit 403, a network error and then a payload: returned on the
\* third POST
C26_Witness ==
    /\ ExecEnded
    /\ returned.kind = "execute"
    /\ returned.posts = 3
    /\ returned.hist[1] \in RateLimitResponses
    /\ returned.hist[2] \in NetworkErrors
    /\ returned.hist[3] \in OkResponses
    /\ ReturnedData(returned)
    /\ returned.data \in Payloads

(***************************************************************************)
(* SpecSleep: two _graphql_query calls and the REST GETs of one service:   *)
(* the first call meets one answer of each kind, the second a retried one  *)
(* or a payload.                                                           *)
(***************************************************************************)
\* the GitHubService of one analysis request
TheService == ServiceOf(TheCall)

\* the second of the two calls
OtherCall == TheCall + 1

\* one answer of each kind: the three that are retried after a sleep, an
\* error status and a payload
SleepResponses ==
    {Resp(503, "None", 0, "none"), Resp(403, "None", 30, "none"),
     Resp(0, "ConnectError", 0, "none"), Resp(404, "None", 0, "none"),
     Resp(200, "None", 0, "P1")}

NextSleep ==
    \/ GetSend(TheService)
    \/ GetReturn(TheService)
    \/ \E c \in {TheCall, OtherCall} : ExecuteStart(c, TheService)
    \/ \E c \in {TheCall, OtherCall} : Acquire(c)
    \/ \E r \in SleepResponses : Respond(TheCall, r)
    \/ \E r \in GateResponses : Respond(OtherCall, r)
    \/ \E c \in {TheCall, OtherCall} : Wake(c)

SpecSleep == Init /\ [][NextSleep]_vars

Sleeping(k) == k.pc \in {"sleep_transient", "sleep_rate_limit", "sleep_network"}

\* the calls of service s that are inside async with self._semaphore
CallsInGate(s) == {c \in Calls : call[c].svc = s /\ (call[c].pc = "posting" \/ Sleeping(call[c]))}

\* the calls of service s that sleep
Sleepers(s) == {c \in Calls : call[c].svc = s /\ Sleeping(call[c])}

CacheBefore(u) ==
    [fn |-> "fetch_contribution_data", pc |-> "called", username |-> u, now |-> clock,
     store |-> _store, times |-> _times]

FetchObserved(u) ==
    /\ FetchBegin(TheCall, ServiceOf(TheCall), u)
    /\ analysis' = CacheBefore(u)

NextFrame ==
    \/ \E u \in Usernames : FetchObserved(u)
    \/ Acquire(TheCall)
    \/ \E r \in FetchResponses : Respond(TheCall, r)
    \/ Wake(TheCall)
    \/ Tick

SpecFrame == Init /\ [][NextFrame]_vars

\* the observed call has ended and no other has started
FetchEnded ==
    /\ analysis.fn = "fetch_contribution_data"
    /\ call[TheCall].pc = "idle"
    /\ returned.pc = "done"

\* C28 (as stated): a fetch that ends without data leaves the cache exactly
\* as it was before the call.
C28_FailureLeavesCache ==
    (FetchEnded /\ returned.result = Null) =>
        (_store = analysis.store /\ _times = analysis.times)

\* the cache entries other than that of key are as the caller saw them
OthersKept(key) ==
    /\ DOMAIN _store \ {key} = DOMAIN analysis.store \ {key}
    /\ DOMAIN _times = DOMAIN _store
    /\ \A k \in DOMAIN _store \ {key} :
           _store[k] = analysis.store[k] /\ _times[k] = analysis.times[k]

\* C28 (amended): a fetch that ends without data has written nothing to the
\* cache: every entry of another subject is as it was, and the entry of the
\* requested subject is absent, so that the next call for the subject goes
\* to the remote again.  The cache is as it was before the call unless it
\* held an expired entry of the requested subject, which the lookup at the
\* start of the call has removed.  Only a call that got a non-null user
\* payload from the remote writes, under the key of its subject, that
\* payload.
C28_FailureWritesNothing ==
    FetchEnded =>
        LET key == CacheKey(analysis.username) IN
            /\ returned.username = analysis.username
            /\ OthersKept(key)
            /\ returned.result = Null =>
                   /\ key \notin DOMAIN _store
                   /\ key \in DOMAIN analysis.store =>
                          analysis.now - analysis.times[key] >= ttl_seconds
                   /\ key \notin DOMAIN analysis.store =>
                          (_store = analysis.store /\ _times = analysis.times)
            /\ returned.result # Null =>
                   /\ returned.result \in Payloads
                   /\ _store[key] = returned.result
                   /\ returned.cacheHit =>
                          (_store = analysis.store /\ _times = analysis.times)
                   /\ ~returned.cacheHit =>
                          /\ returned.data = returned.result
                          /\ Last(returned.hist).body = returned.result
                          /\ _times[key] >= analysis.now

\* alice's fetch fails on a GraphQL errors array 300 s after her payload was
\* cached: the expired entry is gone, bob's entry is untouched
C28_Witness ==
    /\ FetchEnded
    /\ analysis.username = "alice"
    /\ returned.result = Null
    /\ returned.execRaised.type = "ValueError"
    /\ CacheKey("alice") \in DOMAIN analysis.store
    /\ CacheKey("alice") \notin DOMAIN _store
    /\ CacheKey("bob") \in DOMAIN _store

\* C29: the two trend outputs of one parse agree: with is_trending_up the
\* trend_signal of the overview is neither decline nor strong_decline, and
\* with a negative growth_rate it is neither growth nor strong_growth,
\* zero-total full years included.
C29_TrendOutputsAgree ==
    ParseDone =>
        /\ analysis.result.is_trending_up =>
               analysis.result.activity_overview.trend_signal
                   \notin {"decline", "strong_decline"}
        /\ analysis.result.growth_rate < 0 =>
               analysis.result.activity_overview.trend_signal
                   \notin {"growth", "strong_growth"}

\* the distinct dates of the list given to _compute_streaks with a count > 0
DatesWithCount ==
    {analysis.contribution_days[i][1] :
        i \in {j \in DOMAIN analysis.contribution_days :
                   analysis.contribution_days[j][2] > 0}}

\* C30: for every list of daily pairs and every today,
\* 0 <= current_streak <= longest_streak <= the number of distinct dates with
\* a count > 0, and longest_streak is 0 iff there is no such date.
C30_StreakOrder ==
    analysis.fn = "_compute_streaks" =>
        /\ 0 <= analysis.current_streak
        /\ analysis.current_streak <= analysis.longest_streak
        /\ analysis.longest_streak <= Cardinality(DatesWithCount)
        /\ analysis.longest_streak = 0 <=> DatesWithCount = {}

\* three active dates, the last one yesterday after a gap: current 1,
\* longest 2, three dates
C30_Witness ==
    /\ analysis.fn = "_compute_streaks"
    /\ Len(analysis.contribution_days) = 3
    /\ DatesWithCount = {<<2023, 12, 31>>, <<2024, 1, 1>>, <<2024, 1, 3>>}
    /\ analysis.today = <<2024, 1, 4>>
    /\ analysis.current_streak = 1
    /\ analysis.longest_streak = 2

====
